---- MODULE Spec2Model ----
(***************************************************************************)
(* Verification model of org-parser: the streaming line classifier         *)
(* (org_parser.py), the table-formula evaluator and the HTML render state  *)
(* machine (org_to_html.py).                                               *)
(*                                                                         *)
(* Text is modelled at character level: a Python str is a sequence of      *)
(* one-character strings, so that the regular expressions of               *)
(* config_loader.py and the str methods the handlers use are computed and  *)
(* not assumed.  Optional[T] is a sequence of length 0 (None) or 1.        *)
(* A dict is a sequence of [k, v] pairs in insertion order.                *)
(***************************************************************************)
EXTENDS Integers, Sequences, FiniteSets, TLC

VARIABLES
    state,      \* the OrgState of the pass (org_parser.py:66-121)
    events,     \* the event list returned by the last parse_org_line call
    line,       \* the line given to the last parse_org_line call
    nlines,     \* number of lines read so far
    open,       \* history: names of the begin markers of the input not yet closed
    wellnested, \* history: the input so far is a properly nested marker sequence
    tf,         \* the locals of _apply_column_formulas_to_table
    rs,         \* the locals of render_org_to_html_body
    tk,         \* the locals of tokenize_inline_org_markup
    rd,         \* the call stack and the output of read_with_includes
    mc          \* the math cache file and the requests that use it

vars == <<state, events, line, nlines, open, wellnested, tf, rs, tk, rd, mc>>

(***************************************************************************)
(* Optional values and characters                                          *)
(***************************************************************************)
None == <<>>
Some(x) == <<x>>

SpaceCh == {" ", "\t"}
DigitSeq == <<"0", "1", "2", "3", "4", "5", "6", "7", "8", "9">>
UpperSeq == <<"A", "B", "C", "D", "E", "F", "G", "H", "I", "J", "K", "L", "M",
              "N", "O", "P", "Q", "R", "S", "T", "U", "V", "W", "X", "Y", "Z">>
LowerSeq == <<"a", "b", "c", "d", "e", "f", "g", "h", "i", "j", "k", "l", "m",
              "n", "o", "p", "q", "r", "s", "t", "u", "v", "w", "x", "y", "z">>
Range(f) == {f[i] : i \in DOMAIN f}
DigitCh == Range(DigitSeq)
LetterCh == Range(UpperSeq) \cup Range(LowerSeq)
WordCh == LetterCh \cup DigitCh \cup {"_"}               \* \w
KeyCh == LetterCh \cup DigitCh \cup {"_", "-"}           \* [A-Za-z0-9_-]
DrawerCh == LetterCh \cup DigitCh \cup {"_", "@", "#", "%"}  \* [A-Za-z0-9_@#%]

\* str.lower() on one character
LowerCh(c) ==
    IF c \in Range(UpperSeq)
    THEN LowerSeq[CHOOSE i \in 1..26 : UpperSeq[i] = c]
    ELSE c

RECURSIVE LowerStr(_)
LowerStr(s) == IF s = <<>> THEN <<>> ELSE <<LowerCh(Head(s))>> \o LowerStr(Tail(s))

RECURSIVE LStrip(_)
LStrip(s) == IF s # <<>> /\ Head(s) \in SpaceCh THEN LStrip(Tail(s)) ELSE s

RECURSIVE RStrip(_)
RStrip(s) ==
    IF s # <<>> /\ s[Len(s)] \in SpaceCh THEN RStrip(SubSeq(s, 1, Len(s) - 1)) ELSE s

Strip(s) == RStrip(LStrip(s))

\* str.lstrip(" "): only blanks
RECURSIVE LStripBlank(_)
LStripBlank(s) == IF s # <<>> /\ Head(s) = " " THEN LStripBlank(Tail(s)) ELSE s

\* str.strip(ch) for a one-character argument
RECURSIVE LStripCh(_, _)
LStripCh(s, c) == IF s # <<>> /\ Head(s) = c THEN LStripCh(Tail(s), c) ELSE s

RECURSIVE RStripCh(_, _)
RStripCh(s, c) ==
    IF s # <<>> /\ s[Len(s)] = c THEN RStripCh(SubSeq(s, 1, Len(s) - 1), c) ELSE s

StripCh(s, c) == RStripCh(LStripCh(s, c), c)

Drop(s, n) == SubSeq(s, n + 1, Len(s))
Take(s, n) == SubSeq(s, 1, n)
StartsWith(s, p) == Len(s) >= Len(p) /\ Take(s, Len(p)) = p
EndsWith(s, p) == Len(s) >= Len(p) /\ Drop(s, Len(s) - Len(p)) = p
Contains(s, c) == \E i \in 1..Len(s) : s[i] = c

\* length of the longest prefix of s made of characters of cls (a greedy X*)
RECURSIVE SpanLen(_, _)
SpanLen(s, cls) == IF s # <<>> /\ Head(s) \in cls THEN 1 + SpanLen(Tail(s), cls) ELSE 0

\* index of the first occurrence of the string p in s at or after i, 0 if none
RECURSIVE FindFrom(_, _, _)
FindFrom(s, p, i) ==
    IF i + Len(p) - 1 > Len(s) THEN 0
    ELSE IF SubSeq(s, i, i + Len(p) - 1) = p THEN i
    ELSE FindFrom(s, p, i + 1)

Find(s, p) == FindFrom(s, p, 1)

\* str.split(sep): all pieces, empty ones included
RECURSIVE Split(_, _)
Split(s, sep) ==
    LET i == Find(s, sep)
    IN  IF i = 0 THEN <<s>>
        ELSE <<Take(s, i - 1)>> \o Split(Drop(s, i + Len(sep) - 1), sep)

\* str.split(sep, 1)[1] guarded by "sep in s", as the handlers write it
AfterFirst(s, sep) ==
    LET i == Find(s, sep) IN IF i = 0 THEN <<>> ELSE Drop(s, i + Len(sep) - 1)

\* str.split(): pieces separated by runs of whitespace, no empty piece
RECURSIVE Words(_)
Words(s) ==
    LET t == LStrip(s)
        n == SpanLen(t, {t[i] : i \in 1..Len(t)} \ SpaceCh)
    IN  IF t = <<>> THEN <<>> ELSE <<Take(t, n)>> \o Words(Drop(t, n))

\* " ".join(parts)
RECURSIVE Join(_)
Join(parts) ==
    IF parts = <<>> THEN <<>>
    ELSE IF Len(parts) = 1 THEN parts[1]
    ELSE parts[1] \o <<" ">> \o Join(Tail(parts))

\* int(digits)
DigitVal(c) == (CHOOSE i \in 1..10 : DigitSeq[i] = c) - 1

RECURSIVE IntOf(_)
IntOf(ds) ==
    IF ds = <<>> THEN 0 ELSE 10 * IntOf(Take(ds, Len(ds) - 1)) + DigitVal(ds[Len(ds)])

RECURSIVE MapSeq(_, _)
MapSeq(Op(_), s) == IF s = <<>> THEN <<>> ELSE <<Op(Head(s))>> \o MapSeq(Op, Tail(s))

RECURSIVE FilterSeq(_, _)
FilterSeq(Test(_), s) ==
    IF s = <<>> THEN <<>>
    ELSE (IF Test(Head(s)) THEN <<Head(s)>> ELSE <<>>) \o FilterSeq(Test, Tail(s))

\* any(flags)
AnyTrue(flags) == \E i \in 1..Len(flags) : flags[i]

\* dict[key] = value, keeping the position of an existing key
RECURSIVE DictSet(_, _, _)
DictSet(d, key, value) ==
    IF d = <<>> THEN <<[k |-> key, v |-> value]>>
    ELSE IF Head(d).k = key THEN <<[k |-> key, v |-> value]>> \o Tail(d)
    ELSE <<Head(d)>> \o DictSet(Tail(d), key, value)

(***************************************************************************)
(* String literals of the source, as character sequences                   *)
(***************************************************************************)
S_hashplus == <<"#", "+">>
S_begin_ == <<"b", "e", "g", "i", "n", "_">>
S_end_ == <<"e", "n", "d", "_">>
S_begin_comment == <<"#", "+", "b", "e", "g", "i", "n", "_", "c", "o", "m", "m", "e", "n", "t">>
S_end_comment == <<"#", "+", "e", "n", "d", "_", "c", "o", "m", "m", "e", "n", "t">>
S_drawer_end == <<":", "e", "n", "d", ":">>
S_src == <<"s", "r", "c">>
S_example == <<"e", "x", "a", "m", "p", "l", "e">>
S_verbatim == <<"v", "e", "r", "b", "a", "t", "i", "m">>
S_export == <<"e", "x", "p", "o", "r", "t">>
S_quote == <<"q", "u", "o", "t", "e">>
S_name == <<"n", "a", "m", "e">>
S_caption == <<"c", "a", "p", "t", "i", "o", "n">>
S_attr_html == <<"a", "t", "t", "r", "_", "h", "t", "m", "l">>
S_latex == <<"l", "a", "t", "e", "x">>
S_tblfm == <<"t", "b", "l", "f", "m">>
S_language == <<"l", "a", "n", "g", "u", "a", "g", "e">>
S_true == <<"t", "r", "u", "e">>
S_def == <<"d", "e", "f">>
S_newcommand == <<"n", "e", "w", "c", "o", "m", "m", "a", "n", "d">>
S_renewcommand == <<"r", "e", "n", "e", "w", "c", "o", "m", "m", "a", "n", "d">>
S_providecommand == <<"p", "r", "o", "v", "i", "d", "e", "c", "o", "m", "m", "a", "n", "d">>
S_newenvironment == <<"n", "e", "w", "e", "n", "v", "i", "r", "o", "n", "m", "e", "n", "t">>
S_renewenvironment == <<"r", "e", "n", "e", "w", "e", "n", "v", "i", "r", "o", "n", "m", "e", "n", "t">>

(***************************************************************************)
(* Configuration: DEFAULT_CONFIG of config_loader.py.  A regular           *)
(* expression is an operator giving None or Some(record of its groups).    *)
(***************************************************************************)
verbatim_blocks == {S_example, S_src, S_verbatim, S_export, S_quote}

\* ^\s*#\+(begin|end)_(\w+)\b\s*(.*)$   (IGNORECASE)
BlockReSide(lt) ==
    IF StartsWith(lt, S_begin_) THEN "begin"
    ELSE IF StartsWith(lt, S_end_) THEN "end" ELSE ""

BlockReGroups(s, side) ==
    LET after == Drop(Drop(s, 2), IF side = "begin" THEN 6 ELSE 4)
        n == SpanLen(after, WordCh)
    IN  IF StartsWith(s, S_hashplus) /\ side # "" /\ n >= 1
        THEN Some([g1 |-> side, g2 |-> Take(after, n), g3 |-> LStrip(Drop(after, n))])
        ELSE None

BlockReAt(s) == BlockReGroups(s, BlockReSide(LowerStr(Drop(s, 2))))

block_re(l) == BlockReAt(LStrip(l))

\* ^\s*#\+([A-Za-z0-9_-]+)\s*:
header_kv_re(l) ==
    LET s == LStrip(l)
        t == Drop(s, 2)
        n == SpanLen(t, KeyCh)
        u == LStrip(Drop(t, n))
    IN  IF StartsWith(s, S_hashplus) /\ n >= 1 /\ u # <<>> /\ Head(u) = ":"
        THEN Some([g1 |-> Take(t, n)])
        ELSE None

\* ^([*]+)\s+([^:]*)(.*)$
section_heading_re(l) ==
    LET n == SpanLen(l, {"*"})
        r == Drop(l, n)
        w == SpanLen(r, SpaceCh)
        body == Drop(r, w)
        c == Find(body, <<":">>)
    IN  IF n >= 1 /\ w >= 1
        THEN Some([g1 |-> Take(l, n),
                   g2 |-> IF c = 0 THEN body ELSE Take(body, c - 1),
                   g3 |-> IF c = 0 THEN <<>> ELSE Drop(body, c - 1)])
        ELSE None

\* ^\s*[-+]\s+(.*)$
unordered_list_re(l) ==
    LET s == LStrip(l)
        r == Drop(s, 1)
        w == SpanLen(r, SpaceCh)
    IN  IF s # <<>> /\ Head(s) \in {"-", "+"} /\ w >= 1
        THEN Some([g1 |-> Drop(r, w)])
        ELSE None

\* ^\s*(\d+)[.)]\s+(.*)$
ordered_list_re(l) ==
    LET s == LStrip(l)
        n == SpanLen(s, DigitCh)
        r == Drop(s, n)
        w == SpanLen(Drop(r, 1), SpaceCh)
    IN  IF n >= 1 /\ r # <<>> /\ Head(r) \in {".", ")"} /\ w >= 1
        THEN Some([g1 |-> Take(s, n), g2 |-> Drop(r, 1 + w)])
        ELSE None

\* ^\s*:([A-Za-z0-9_@#%]+):\s*$
drawer_begin_re(l) ==
    LET s == LStrip(l)
        t == Drop(s, 1)
        n == SpanLen(t, DrawerCh)
        r == Drop(t, n)
    IN  IF s # <<>> /\ Head(s) = ":" /\ n >= 1 /\ r # <<>> /\ Head(r) = ":"
           /\ LStrip(Drop(r, 1)) = <<>>
        THEN Some([g1 |-> Take(t, n)])
        ELSE None

\* ^\s*:END:\s*$   (IGNORECASE)
drawer_end_re(l) == LowerStr(Strip(l)) = S_drawer_end

\* a literal keyword followed by \b: the next character is no word character
KeywordAt(s, kw) ==
    /\ StartsWith(LowerStr(s), kw)
    /\ (Len(s) = Len(kw) \/ s[Len(kw) + 1] \notin WordCh)

\* ^\s*#\+begin_comment\b   (IGNORECASE)
comment_begin_re(l) == KeywordAt(LStrip(l), S_begin_comment)

\* ^\s*#\+end_comment\b   (IGNORECASE)
comment_end_re(l) == KeywordAt(LStrip(l), S_end_comment)

\* \\(?:def|newcommand|renewcommand|providecommand|newenvironment|renewenvironment)\b
\* (case sensitive), used with search()
MacroWords == {S_def, S_newcommand, S_renewcommand, S_providecommand,
               S_newenvironment, S_renewenvironment}

latex_macro_re(v) ==
    \E i \in 1..Len(v) :
        /\ v[i] = "\\"
        /\ \E kw \in MacroWords :
              LET r == Drop(v, i)
              IN  StartsWith(r, kw) /\ (Len(r) = Len(kw) \/ r[Len(kw) + 1] \notin WordCh)

(***************************************************************************)
(* Inline tokenizer: tokenize_inline_org_markup (org_parser.py:823-973).   *)
(* Positions are 1-based here (Python position + 1).  A token is           *)
(* [type, text].                                                           *)
(***************************************************************************)
NULL_SEP == "NUL"    \* stands for the one character U+0000
EmphCh == {"*", "/", "=", "~"}
OpenPunctCh == {"(", "[", "{", "\"", "'"}
ClosePunctCh == {".", ",", ";", ":", "!", "?", ")", "]", "}", "\"", "'"}

delimiter_to_type(ch) ==
    CASE ch = "*" -> "bold_text"
      [] ch = "/" -> "italic_text"
      [] ch = "=" -> "code"
      [] ch = "~" -> "code"

is_valid_emphasis_open(text, pos, delim) ==
    /\ ~(delim = "*" /\ pos = 1 /\ StartsWith(text, <<"*", " ">>))
    /\ ~(pos >= Len(text))
    /\ text[pos + 1] \notin SpaceCh
    /\ ~(pos > 1 /\ text[pos - 1] \notin SpaceCh /\ text[pos - 1] \notin OpenPunctCh)

is_valid_emphasis_close(text, pos, delim) ==
    /\ ~(pos - 1 < 1)
    /\ text[pos - 1] \notin SpaceCh
    /\ ~(pos + 1 <= Len(text) /\ text[pos + 1] \notin SpaceCh
         /\ text[pos + 1] \notin ClosePunctCh)

\* flush_plaintext: the token list after flushing the plaintext buffer
flush_plaintext(tokens, buffer) ==
    IF buffer # <<>> THEN Append(tokens, [type |-> "plaintext", text |-> buffer])
    ELSE tokens

\* first closing delimiter at or after j, 0 if none (the inner while loop)
RECURSIVE FindEmphasisClose(_, _, _)
FindEmphasisClose(text, j, ch) ==
    IF j > Len(text) THEN 0
    ELSE IF text[j] = ch /\ is_valid_emphasis_close(text, j, ch) THEN j
    ELSE FindEmphasisClose(text, j + 1, ch)

\* the locals of the scan loop
ScanLocals(i, tokens, buffer) == [i |-> i, tokens |-> tokens, buffer |-> buffer]

\* an iteration that keeps an unclosed '$' and stays on it
scan_step_Stalls(text, i, tokens, buffer) ==
    IF text[i] = "$" /\ FindFrom(text, <<"$">>, i + 1) = 0
    THEN ScanLocals(i, tokens, Append(buffer, "$"))
    ELSE ScanLocals(i + 1, tokens, Append(buffer, text[i]))

\* lines 884-969: one iteration of the scan loop, from the locals i, tokens
\* and buffer to their values when the loop test is reached again
scan_step(text, i, tokens, buffer) ==
    LET ch == text[i]
        mathEnd == FindFrom(text, <<"\\", ")">>, i + 2)
        ddEnd == FindFrom(text, <<"$", "$">>, i + 2)
        closing == FindFrom(text, <<"$">>, i + 1)
        linkEnd == FindFrom(text, <<"]", "]">>, i + 2)
        inner == SubSeq(text, i + 2, linkEnd - 1)
        sep == Find(inner, <<"]", "[">>)
        url == Strip(IF sep = 0 THEN inner ELSE Take(inner, sep - 1))
        desc == Strip(IF sep = 0 THEN inner ELSE Drop(inner, sep + 1))
        j == FindEmphasisClose(text, i + 1, ch)
    IN
    IF i + 1 <= Len(text) /\ SubSeq(text, i, i + 1) = <<"\\", "(">> /\ mathEnd # 0
    THEN ScanLocals(mathEnd + 2,
             Append(flush_plaintext(tokens, buffer),
                    [type |-> "math_inline", text |-> SubSeq(text, i + 2, mathEnd - 1)]),
             <<>>)
    ELSE IF ch = "$" /\ i + 1 <= Len(text) /\ text[i + 1] = "$" /\ ddEnd # 0
    THEN ScanLocals(ddEnd + 2, tokens, buffer \o SubSeq(text, i, ddEnd + 1))
    ELSE IF ch = "$"
    THEN IF closing # 0 /\ Strip(SubSeq(text, i + 1, closing - 1)) # <<>>
         THEN ScanLocals(closing + 1,
                  Append(flush_plaintext(tokens, buffer),
                         [type |-> "math_inline", text |-> SubSeq(text, i + 1, closing - 1)]),
                  <<>>)
         ELSE ScanLocals(i + 1, tokens, Append(buffer, "$"))
    ELSE IF i + 1 <= Len(text) /\ ch = "[" /\ text[i + 1] = "[" /\ linkEnd # 0
    THEN ScanLocals(linkEnd + 2,
             Append(flush_plaintext(tokens, buffer),
                    [type |-> "link", text |-> url \o <<NULL_SEP>> \o desc]),
             <<>>)
    ELSE IF ch \in EmphCh /\ is_valid_emphasis_open(text, i, ch) /\ j # 0
    THEN ScanLocals(j + 1,
             Append(flush_plaintext(tokens, buffer),
                    [type |-> delimiter_to_type(ch), text |-> SubSeq(text, i + 1, j - 1)]),
             <<>>)
    ELSE ScanLocals(i + 1, tokens, Append(buffer, ch))

\* the scan loop "while i < len(text)" with its locals i, tokens, buffer
RECURSIVE TokenizeFrom(_, _, _, _)
RECURSIVE TokenizeOn(_, _)
TokenizeOn(text, c) == TokenizeFrom(text, c.i, c.tokens, c.buffer)

TokenizeFrom(text, i, tokens, buffer) ==
    IF i > Len(text) THEN flush_plaintext(tokens, buffer)
    ELSE TokenizeOn(text, scan_step(text, i, tokens, buffer))

tokenize_inline_org_markup(text) == TokenizeFrom(text, 1, <<>>, <<>>)

\* make_line_token_event
make_line_token_event(l) ==
    [type |-> "line_tokens", tokens |-> tokenize_inline_org_markup(l)]

(***************************************************************************)
(* Parser state and handlers (org_parser.py).  A handler is an operator    *)
(* from (line, state) to [state, event]: the state as the handler leaves   *)
(* it and the Optional event it returns.                                   *)
(***************************************************************************)
\* OrgState(): the state after construction
OrgState ==
    [preamble |-> <<>>,
     is_in_preamble |-> TRUE,
     is_inside_block |-> FALSE,
     current_block_name |-> None,
     last_block_event |-> "",
     block_stack |-> <<>>,
     block_verbatim_stack |-> <<>>,
     current_block_is_verbatim |-> FALSE,
     is_inside_verbatim_block |-> FALSE,
     src_options_stack |-> <<>>,
     current_heading_level |-> None,
     current_heading_tags |-> None,
     src_block_options |-> None,
     pending_anchor |-> None,
     pending_caption_tokens |-> None,
     pending_html_attr |-> None,
     is_inside_drawer |-> FALSE,
     current_drawer_name |-> None,
     current_drawer_lines |-> None,
     is_inside_comment |-> FALSE,
     current_comment_anchor |-> None,
     current_comment_lines |-> None,
     latex_macro_lines |-> <<>>,
     latex_macro_set |-> {}]

NoEvent(st) == [state |-> st, event |-> None]
Emit(st, ev) == [state |-> st, event |-> Some(ev)]

\* "x or None" for a str, list or dict x
OrNone(x) == IF x = <<>> THEN None ELSE Some(x)

calculate_heading_level(asterisks) == Len(asterisks)

NonEmpty(s) == s # <<>>

extract_heading_tags(trailing) ==
    LET stripped == Strip(trailing)
        tags == FilterSeq(NonEmpty, Split(stripped, <<":">>))
    IN  IF ~Contains(trailing, ":") THEN None
        ELSE IF ~(StartsWith(stripped, <<":">>) /\ EndsWith(stripped, <<":">>)) THEN None
        ELSE OrNone(tags)

IsKeyToken(t) == StartsWith(t, <<":">>)

\* the inner loop of parse_html_attr_args: the tokens up to the next ':key'
RECURSIVE AttrValues(_)
AttrValues(tokens) ==
    IF tokens # <<>> /\ ~IsKeyToken(Head(tokens))
    THEN <<Head(tokens)>> \o AttrValues(Tail(tokens))
    ELSE <<>>

RECURSIVE ParseAttrTokens(_, _)
ParseAttrTokens(tokens, attrs) ==
    IF tokens = <<>> THEN attrs
    ELSE IF IsKeyToken(Head(tokens))
    THEN LET values == AttrValues(Tail(tokens))
         IN  ParseAttrTokens(Drop(tokens, 1 + Len(values)),
                 DictSet(attrs, Tail(Head(tokens)),
                         IF values # <<>> THEN Join(values) ELSE S_true))
    ELSE ParseAttrTokens(Tail(tokens), attrs)

parse_html_attr_args(arg_string) == ParseAttrTokens(Words(Strip(arg_string)), <<>>)

RECURSIVE ParseSrcTokens(_, _)
ParseSrcTokens(tokens, options) ==
    IF tokens = <<>> THEN options
    ELSE IF ~IsKeyToken(Head(tokens)) THEN ParseSrcTokens(Tail(tokens), options)
    ELSE IF Len(tokens) = 1 \/ IsKeyToken(tokens[2])
    THEN ParseSrcTokens(Tail(tokens), DictSet(options, Tail(Head(tokens)), S_true))
    ELSE ParseSrcTokens(Drop(tokens, 2), DictSet(options, Tail(Head(tokens)), tokens[2]))

parse_src_block_options(arg_string) ==
    LET tokens == Words(Strip(arg_string))
    IN  IF tokens = <<>> THEN <<>>
        ELSE IF ~IsKeyToken(tokens[1])
        THEN ParseSrcTokens(Tail(tokens), <<[k |-> S_language, v |-> tokens[1]]>>)
        ELSE ParseSrcTokens(tokens, <<>>)

\* line.split(":", 1)[1].strip() if ":" in line else ""
DirectiveValue(l) == IF Contains(l, ":") THEN Strip(AfterFirst(l, <<":">>)) ELSE <<>>

\* match.group(1).strip().lower() of header_kv_re, None when it does not match
DirectiveKey(l) ==
    LET m == header_kv_re(l)
    IN  IF m = None THEN None ELSE Some(LowerStr(Strip(m[1].g1)))

PreambleKv(st, key, value) ==
    Emit([st EXCEPT !.preamble = DictSet(@, key, value)],
         [type |-> "preamble_kv", key |-> key, value |-> value])

\* a preamble handler that reports the end of the preamble and stays in it
handle_preamble_if_applicable_StaysOpen(l, st) ==
    IF ~st.is_in_preamble THEN NoEvent(st)
    ELSE IF Strip(l) = <<>> THEN NoEvent(st)
    ELSE IF header_kv_re(l) # None
    THEN PreambleKv(st, DirectiveKey(l)[1], DirectiveValue(l))
    ELSE Emit(st, [type |-> "preamble_end", reason |-> "first_non_header_content"])

\* lines 215-246
handle_preamble_if_applicable(l, st) ==
    IF ~st.is_in_preamble THEN NoEvent(st)
    ELSE IF Strip(l) = <<>> THEN NoEvent(st)
    ELSE IF header_kv_re(l) # None
    THEN PreambleKv(st, DirectiveKey(l)[1], DirectiveValue(l))
    ELSE Emit([st EXCEPT !.is_in_preamble = FALSE],
              [type |-> "preamble_end", reason |-> "first_non_header_content"])

HeadingEvent(st, heading_level, heading_tags) ==
    Emit([st EXCEPT !.is_in_preamble = FALSE,
                    !.current_heading_level = Some(heading_level),
                    !.current_heading_tags = heading_tags,
                    !.pending_anchor = None],
         [type |-> "heading", level |-> heading_level, tags |-> heading_tags,
          anchor |-> st.pending_anchor])

HeadingMatch(st, m) ==
    IF m = None THEN NoEvent(st)
    ELSE HeadingEvent(st, calculate_heading_level(m[1].g1), extract_heading_tags(m[1].g3))

handle_section_heading_if_present(l, st) == HeadingMatch(st, section_heading_re(l))

\* the cache without the membership test: every definition line is appended
LatexMacro_AppendsAlways(st, value) ==
    IF value = <<>>
    THEN Emit(st, [type |-> "latex_macro", raw |-> <<>>, added |-> FALSE, ignored |-> TRUE])
    ELSE IF ~latex_macro_re(value)
    THEN Emit(st, [type |-> "latex_macro", raw |-> value, added |-> FALSE, ignored |-> TRUE])
    ELSE Emit([st EXCEPT !.latex_macro_set = @ \cup {value},
                         !.latex_macro_lines = Append(@, value)],
              [type |-> "latex_macro", raw |-> value, added |-> TRUE, ignored |-> FALSE])

LatexMacro(st, value) ==
    IF value = <<>>
    THEN Emit(st, [type |-> "latex_macro", raw |-> <<>>, added |-> FALSE, ignored |-> TRUE])
    ELSE IF ~latex_macro_re(value)
    THEN Emit(st, [type |-> "latex_macro", raw |-> value, added |-> FALSE, ignored |-> TRUE])
    ELSE IF value \notin st.latex_macro_set
    THEN Emit([st EXCEPT !.latex_macro_set = @ \cup {value},
                         !.latex_macro_lines = Append(@, value)],
              [type |-> "latex_macro", raw |-> value, added |-> TRUE, ignored |-> FALSE])
    ELSE Emit(st, [type |-> "latex_macro", raw |-> value, added |-> FALSE, ignored |-> FALSE])

handle_latex_macro_keyword_if_present(l, st) ==
    IF DirectiveKey(l) # Some(S_latex) THEN NoEvent(st)
    ELSE LatexMacro(st, DirectiveValue(l))

\* state.is_inside_verbatim_block = any(state.block_verbatim_stack)
RecomputeVerbatim_TopOnly(verb) == verb # <<>> /\ verb[Len(verb)]

RecomputeVerbatim(verb) == AnyTrue(verb)

\* state.src_options_stack.pop() if state.src_options_stack else None:
\* the stack it leaves
PopOptions_Keep(stack) == stack

PopOptions(stack) == IF stack # <<>> THEN Take(stack, Len(stack) - 1) ELSE stack

\* state.is_inside_block = bool(state.block_stack)
InsideBlockAfterPop_Stale(names) == TRUE

InsideBlockAfterPop(names) == names # <<>>

\* the END branch of _handle_block_marker_if_present once the closer matches
\* the top of the stack: pop the three stacks and recompute the flags
PopBlock(st) ==
    LET names == Take(st.block_stack, Len(st.block_stack) - 1)
        verb == Take(st.block_verbatim_stack, Len(st.block_verbatim_stack) - 1)
        opts == PopOptions(st.src_options_stack)
    IN  [st EXCEPT !.block_stack = names,
                   !.block_verbatim_stack = verb,
                   !.src_options_stack = opts,
                   !.is_inside_verbatim_block = RecomputeVerbatim(verb),
                   !.is_inside_block = InsideBlockAfterPop(names),
                   !.current_block_name =
                       IF names # <<>> THEN Some(names[Len(names)]) ELSE None,
                   !.current_block_is_verbatim =
                       IF verb # <<>> THEN verb[Len(verb)] ELSE FALSE,
                   !.last_block_event = "end",
                   !.src_block_options =
                       IF opts # <<>> THEN opts[Len(opts)] ELSE None]

\* the BEGIN branch: push one entry on each stack, consume the pending anchor
PushBlock(st, block_name, is_verbatim, opts) ==
    [st EXCEPT !.block_stack = Append(@, block_name),
               !.block_verbatim_stack = Append(@, is_verbatim),
               !.is_inside_verbatim_block =
                   RecomputeVerbatim(Append(st.block_verbatim_stack, is_verbatim)),
               !.is_inside_block = TRUE,
               !.current_block_name = Some(block_name),
               !.current_block_is_verbatim = is_verbatim,
               !.last_block_event = "begin",
               !.pending_anchor = None,
               !.src_options_stack = Append(@, opts),
               !.src_block_options = opts]

\* the BEGIN branch of _handle_block_marker_if_present (lines 342-381)
BeginSrc(st, opts) ==
    Emit(PushBlock(st, S_src, S_src \in verbatim_blocks, opts),
         [type |-> "src_begin", name |-> S_src, src |-> opts,
          verbatim |-> TRUE,
          heading_level |-> st.current_heading_level,
          heading_tags |-> st.current_heading_tags,
          anchor |-> st.pending_anchor])

BeginBlock(st, block_name, remainder) ==
    IF block_name = S_src
    THEN BeginSrc(st, OrNone(parse_src_block_options(remainder)))
    ELSE Emit(PushBlock(st, block_name, block_name \in verbatim_blocks, None),
              [type |-> "block_begin", name |-> block_name,
               verbatim |-> block_name \in verbatim_blocks, anchor |-> st.pending_anchor])

\* the END branch with the mismatch test left out: a closer pops whatever is on top
EndBlock_PopsMismatch(st, block_name) ==
    IF st.block_stack = <<>>
    THEN Emit(st, [type |-> "block_end", name |-> block_name, orphan_ignored |-> TRUE])
    ELSE Emit(PopBlock(st),
              [type |-> "block_end", name |-> block_name,
               mismatch_ignored |-> TRUE,
               expected |-> st.block_stack[Len(st.block_stack)]])

\* the END branch of _handle_block_marker_if_present (lines 383-419)
EndBlock(st, block_name) ==
    LET expected == st.block_stack[Len(st.block_stack)]
        popped_verbatim == st.block_verbatim_stack[Len(st.block_verbatim_stack)]
        popped_src_opts == IF st.src_options_stack # <<>>
                           THEN st.src_options_stack[Len(st.src_options_stack)]
                           ELSE None
    IN  IF st.block_stack = <<>>
        THEN Emit(st, [type |-> "block_end", name |-> block_name, orphan_ignored |-> TRUE])
        ELSE IF expected # block_name
        THEN Emit(st, [type |-> "block_end", name |-> block_name,
                       mismatch_ignored |-> TRUE, expected |-> expected])
        ELSE IF expected = S_src
        THEN Emit(PopBlock(st),
                  [type |-> "src_end", name |-> S_src, src |-> popped_src_opts,
                   heading_level |-> st.current_heading_level,
                   heading_tags |-> st.current_heading_tags])
        ELSE Emit(PopBlock(st),
                  [type |-> "block_end", name |-> block_name, verbatim |-> popped_verbatim])

BlockMarker(st, m) ==
    IF m = None THEN NoEvent(st)
    ELSE IF m[1].g1 = "begin" THEN BeginBlock(st, LowerStr(m[1].g2), Strip(m[1].g3))
    ELSE EndBlock(st, LowerStr(m[1].g2))

handle_block_marker_if_present(l, st) == BlockMarker(st, block_re(l))

handle_drawer_if_present(l, st) ==
    LET m == drawer_begin_re(l)
    IN  IF st.is_inside_drawer
        THEN IF drawer_end_re(l)
             THEN Emit([st EXCEPT !.is_inside_drawer = FALSE,
                                  !.current_drawer_name = None,
                                  !.current_drawer_lines = None],
                       [type |-> "drawer",
                        name |-> IF st.current_drawer_name # None
                                 THEN st.current_drawer_name[1] ELSE <<>>,
                        lines |-> IF st.current_drawer_lines # None
                                  THEN st.current_drawer_lines[1] ELSE <<>>])
             ELSE NoEvent([st EXCEPT !.current_drawer_lines =
                              Some(Append(IF @ = None THEN <<>> ELSE @[1], l))])
        ELSE IF m = None THEN NoEvent(st)
        ELSE NoEvent([st EXCEPT !.is_inside_drawer = TRUE,
                                !.current_drawer_name = Some(m[1].g1),
                                !.current_drawer_lines = Some(<<>>)])

\* the cells of a row whose stripped text is core
TableCells(core) ==
    LET inner1 == IF StartsWith(core, <<"|">>) THEN Tail(core) ELSE core
        row_inner == IF EndsWith(inner1, <<"|">>) THEN Take(inner1, Len(inner1) - 1)
                     ELSE inner1
    IN  MapSeq(Strip, Split(row_inner, <<"|">>))

\* a table line with nothing between its outer bars taken for a rule
TableLine_EmptyIsRule(l, st, core, inner) ==
    IF \A i \in 1..Len(inner) : inner[i] \in {"-", "+", " "}
    THEN Emit(st, [type |-> "table_hline", raw |-> l])
    ELSE Emit(st, [type |-> "table_row", cells |-> TableCells(core), raw |-> l])

\* lines 540-559
TableLine(l, st, core, inner) ==
    IF inner # <<>> /\ \A i \in 1..Len(inner) : inner[i] \in {"-", "+", " "}
    THEN Emit(st, [type |-> "table_hline", raw |-> l])
    ELSE Emit(st, [type |-> "table_row", cells |-> TableCells(core), raw |-> l])

handle_table_if_present(l, st) ==
    IF ~StartsWith(LStrip(l), <<"|">>) THEN NoEvent(st)
    ELSE TableLine(l, st, Strip(l), Strip(StripCh(Strip(l), "|")))

TblfmEvent(st, value) ==
    Emit(st, [type |-> "tblfm", raw |-> value,
              formulas |-> FilterSeq(NonEmpty, MapSeq(Strip, Split(value, <<":", ":">>)))])

handle_tblfm_keyword_if_present(l, st) ==
    IF DirectiveKey(l) # Some(S_tblfm) THEN NoEvent(st)
    ELSE TblfmEvent(st, DirectiveValue(l))

handle_comment_if_present(l, st) ==
    LET stripped == LStrip(l)
        text == Tail(stripped)
    IN  IF st.is_inside_comment
        THEN IF comment_end_re(l)
             THEN Emit([st EXCEPT !.is_inside_comment = FALSE,
                                  !.current_comment_anchor = None,
                                  !.current_comment_lines = None],
                       [type |-> "comment_block",
                        anchor |-> st.current_comment_anchor,
                        lines |-> IF st.current_comment_lines # None
                                  THEN st.current_comment_lines[1] ELSE <<>>])
             ELSE NoEvent([st EXCEPT !.current_comment_lines =
                              Some(Append(IF @ = None THEN <<>> ELSE @[1], l))])
        ELSE IF comment_begin_re(l)
        THEN NoEvent([st EXCEPT !.is_inside_comment = TRUE,
                                !.current_comment_lines = Some(<<>>),
                                !.current_comment_anchor = st.pending_anchor,
                                !.pending_anchor = None])
        ELSE IF StartsWith(stripped, <<"#">>) /\ ~StartsWith(LowerStr(stripped), S_hashplus)
        THEN Emit([st EXCEPT !.pending_anchor = None],
                  [type |-> "comment", anchor |-> st.pending_anchor,
                   text |-> IF StartsWith(text, <<" ">>) THEN Tail(text) ELSE text])
        ELSE NoEvent(st)

\* len(line) - len(line.lstrip(" "))
Indent(l) == Len(l) - Len(LStripBlank(l))

handle_unordered_list_if_present(l, st) ==
    LET m == unordered_list_re(l)
    IN  IF m = None THEN NoEvent(st)
        ELSE Emit(st, [type |-> "list_item", indent |-> Indent(l), text |-> m[1].g1])

OrderedItem(l, st, m) ==
    IF m = None THEN NoEvent(st)
    ELSE Emit(st, [type |-> "ordered_list_item", indent |-> Indent(l),
                   raw_index |-> m[1].g1, index |-> Some(IntOf(m[1].g1)),
                   text |-> m[1].g2])

handle_ordered_list_if_present(l, st) == OrderedItem(l, st, ordered_list_re(l))

NameEvent(st, value) ==
    Emit([st EXCEPT !.pending_anchor = OrNone(value)], [type |-> "name", name |-> value])

handle_name_keyword_if_present(l, st) ==
    IF DirectiveKey(l) # Some(S_name) THEN NoEvent(st)
    ELSE NameEvent(st, DirectiveValue(l))

CaptionEvent(st, value, tokens) ==
    Emit([st EXCEPT !.pending_caption_tokens = OrNone(tokens)],
         [type |-> "caption", caption |-> value, tokens |-> tokens])

CaptionValue(st, value) ==
    CaptionEvent(st, value, IF value # <<>> THEN tokenize_inline_org_markup(value) ELSE <<>>)

handle_caption_keyword_if_present(l, st) ==
    IF DirectiveKey(l) # Some(S_caption) THEN NoEvent(st)
    ELSE CaptionValue(st, DirectiveValue(l))

AttrHtmlEvent(st, value, attrs) ==
    Emit([st EXCEPT !.pending_html_attr = OrNone(attrs)],
         [type |-> "attr_html", raw |-> value, attrs |-> attrs])

AttrHtmlValue(st, value) ==
    AttrHtmlEvent(st, value, IF value # <<>> THEN parse_html_attr_args(value) ELSE <<>>)

handle_attr_html_keyword_if_present(l, st) ==
    IF DirectiveKey(l) # Some(S_attr_html) THEN NoEvent(st)
    ELSE AttrHtmlValue(st, DirectiveValue(l))

\* lines 1079-1088: the list handlers run only when the line is no heading, the
\* ordered one only when the unordered one has not matched
ListEvent(hd, ul, ol) ==
    IF hd.event # None THEN <<>>
    ELSE IF ul.event # None THEN ul.event
    ELSE ol.event

\* lines 1075-1093: hd and bl are the outcomes of the heading and block handlers
ContentAfterBlock(l, hd, bl, evs0) ==
    [state |-> bl.state,
     events |-> evs0 \o hd.event \o bl.event
                   \o ListEvent(hd, handle_unordered_list_if_present(l, bl.state),
                                handle_ordered_list_if_present(l, bl.state))
                   \o <<make_line_token_event(l)>>]

ContentAfterHeading(l, hd, evs0) ==
    ContentAfterBlock(l, hd, handle_block_marker_if_present(l, hd.state), evs0)

\* the tail of parse_org_line, from the heading handler on (lines 1071-1093)
ClassifyContent(l, st0, evs0) ==
    ContentAfterHeading(l, handle_section_heading_if_present(l, st0), evs0)

\* a keyword handler that returns an event ends the line with the event and the
\* line's tokens; otherwise the next handler is tried
OrKeyword(l, h, evs0, otherwise) ==
    IF h.event # None
    THEN [state |-> h.state, events |-> evs0 \o h.event \o <<make_line_token_event(l)>>]
    ELSE otherwise

\* lines 1031-1069: the keyword handlers in the order parse_org_line tries them
ClassifyKeywords(l, st, evs0) ==
    OrKeyword(l, handle_tblfm_keyword_if_present(l, st), evs0,
    OrKeyword(l, handle_name_keyword_if_present(l, st), evs0,
    OrKeyword(l, handle_caption_keyword_if_present(l, st), evs0,
    OrKeyword(l, handle_attr_html_keyword_if_present(l, st), evs0,
    OrKeyword(l, handle_latex_macro_keyword_if_present(l, st), evs0,
    ClassifyContent(l, st, evs0))))))

\* a table line that also gets the line_tokens event of ordinary content
LineAfterTable_WithTokens(l, st, tb, evs0) ==
    IF tb.event # None
    THEN [state |-> tb.state, events |-> evs0 \o tb.event \o <<make_line_token_event(l)>>]
    ELSE ClassifyKeywords(l, st, evs0)

\* lines 1023-1028: tb is the outcome of the table handler
LineAfterTable(l, st, tb, evs0) ==
    IF tb.event # None THEN [state |-> tb.state, events |-> evs0 \o tb.event]
    ELSE ClassifyKeywords(l, st, evs0)

\* lines 1014-1019: dr is the outcome of the drawer handler
LineAfterDrawer(l, dr, evs0) ==
    IF dr.event # None THEN [state |-> dr.state, events |-> evs0 \o dr.event]
    ELSE IF dr.state.is_inside_drawer THEN [state |-> dr.state, events |-> evs0]
    ELSE LineAfterTable(l, dr.state, handle_table_if_present(l, dr.state), evs0)

\* lines 1004-1010: cm is the outcome of the comment handler
LineAfterComment(l, cm, evs0) ==
    IF cm.event # None THEN [state |-> cm.state, events |-> evs0 \o cm.event]
    ELSE IF cm.state.is_inside_comment THEN [state |-> cm.state, events |-> evs0]
    ELSE LineAfterDrawer(l, handle_drawer_if_present(l, cm.state), evs0)

\* parse_org_line after the preamble handler (lines 1003-1093)
ClassifyLine(l, st0, evs0) ==
    LineAfterComment(l, handle_comment_if_present(l, st0), evs0)

\* no early return after a preamble_kv event: the other handlers see the line
LineAfterPreamble_RunsHandlers(l, pre) == ClassifyLine(l, pre.state, pre.event)

\* lines 995-1001: pre is the outcome of the preamble handler
LineAfterPreamble(l, pre) ==
    IF pre.event # None /\ pre.event[1].type = "preamble_kv"
    THEN [state |-> pre.state, events |-> pre.event \o <<make_line_token_event(l)>>]
    ELSE ClassifyLine(l, pre.state, pre.event)

\* parse_org_line: [state, events]
parse_org_line(l, st) == LineAfterPreamble(l, handle_preamble_if_applicable(l, st))

(***************************************************************************)
(* Input lines.  Each specification draws the lines it reads from a fixed  *)
(* vocabulary that has one line of each kind the classifier tells apart.   *)
(***************************************************************************)
L_blank == <<>>    \* ''
L_text == <<"a", "b">>    \* 'ab'
L_heading == <<"*", " ", "H">>    \* '* H'
L_begin_src == <<"#", "+", "b", "e", "g", "i", "n", "_", "s", "r", "c", " ", "p", "y">>    \* '#+begin_src py'
L_end_src == <<"#", "+", "E", "N", "D", "_", "S", "R", "C">>    \* '#+END_SRC'
L_begin_center == <<"#", "+", "b", "e", "g", "i", "n", "_", "c", "e", "n", "t", "e", "r">>    \* '#+begin_center'
L_end_center == <<"#", "+", "e", "n", "d", "_", "c", "e", "n", "t", "e", "r">>    \* '#+end_center'
L_begin_comment == <<"#", "+", "b", "e", "g", "i", "n", "_", "c", "o", "m", "m", "e", "n", "t">>    \* '#+begin_comment'
L_end_comment == <<"#", "+", "e", "n", "d", "_", "c", "o", "m", "m", "e", "n", "t">>    \* '#+end_comment'
L_comment == <<"#", " ", "c">>    \* '# c'
L_drawer == <<":", "P", ":">>    \* ':P:'
L_drawer_end == <<":", "E", "N", "D", ":">>    \* ':END:'
L_name == <<"#", "+", "N", "A", "M", "E", ":", " ", "a">>    \* '#+NAME: a'
L_name_empty == <<"#", "+", "N", "A", "M", "E", ":">>    \* '#+NAME:'
L_title == <<"#", "+", "T", "I", "T", "L", "E", ":", " ", "T">>    \* '#+TITLE: T'
L_row == <<"|", " ", "1", " ", "|">>    \* '| 1 |'
L_hline == <<"|", "-", "|">>    \* '|-|'
L_tblfm == <<"#", "+", "T", "B", "L", "F", "M", ":", " ", "$", "1", "=", "1">>    \* '#+TBLFM: $1=1'
L_caption == <<"#", "+", "C", "A", "P", "T", "I", "O", "N", ":", " ", "c">>    \* '#+CAPTION: c'
L_attr == <<"#", "+", "A", "T", "T", "R", "_", "H", "T", "M", "L", ":", " ", ":", "w", " ", "1">>    \* '#+ATTR_HTML: :w 1'
L_latex == <<"#", "+", "L", "A", "T", "E", "X", ":", " ", "\\", "d", "e", "f", "\\", "a", "{", "}">>    \* '#+LATEX: \\def\\a{}'
L_ul == <<"-", " ", "i">>    \* '- i'
L_ol == <<"1", ".", " ", "i">>    \* '1. i'
L_begin_verse == <<"#", "+", "b", "e", "g", "i", "n", "_", "v", "e", "r", "s", "e">>    \* '#+begin_verse'
L_end_verse == <<"#", "+", "e", "n", "d", "_", "v", "e", "r", "s", "e">>    \* '#+end_verse'
L_results == <<"#", "+", "R", "E", "S", "U", "L", "T", "S", ":">>    \* '#+RESULTS:'
L_noexport == <<"*", " ", "S", " ", ":", "n", "o", "e", "x", "p", "o", "r", "t", ":">>    \* '* S :noexport:'
L_math == <<"$", "x", "$">>    \* '$x$'
L_latex_b == <<"#", "+", "L", "A", "T", "E", "X", ":", " ", "\\", "d", "e", "f", "\\", "b", "{", "}">>    \* '#+LATEX: \\def\\b{}'
L_latex_plain == <<"#", "+", "L", "A", "T", "E", "X", ":", " ", "x">>    \* '#+LATEX: x'
L_image == <<"[", "[", "f", "i", "l", "e", ":", "a", ".", "p", "n", "g", "]", "]">>    \* '[[file:a.png]]'
L_inc_a == <<"#", "+", "I", "N", "C", "L", "U", "D", "E", ":", " ", "a">>    \* '#+INCLUDE: a'
L_inc_b == <<"#", "+", "i", "n", "c", "l", "u", "d", "e", ":", " ", "\"", "b", "\"">>    \* '#+include: "b"'
L_olmath == <<"1", ".", " ", "$", "x", "$">>    \* '1. $x$'

Lines ==
    {L_blank, L_text, L_heading, L_begin_src, L_end_src, L_begin_center,
     L_end_center, L_begin_comment, L_end_comment, L_comment, L_drawer,
     L_drawer_end, L_name, L_name_empty, L_title, L_row, L_hline, L_tblfm,
     L_caption, L_attr, L_latex, L_ul, L_ol}

\* the lines of SpecBlocks: the block markers, a #+NAME directive and a heading
BlockLines ==
    {L_begin_src, L_end_src, L_begin_center, L_end_center, L_begin_comment,
     L_end_comment, L_name, L_heading}

MaxLines == 3      \* lines read by one pass of Spec
MaxMarkers == 5    \* lines read by one pass of SpecBlocks

(***************************************************************************)
(* History of the input: is it, so far, a properly nested sequence of      *)
(* begin/end marker lines, and which begins are still unmatched.  Computed *)
(* from the text of the lines alone.                                       *)
(***************************************************************************)
MarkerSide(l) == block_re(l)[1].g1
MarkerName(l) == LowerStr(block_re(l)[1].g2)

NestedAfter(l) ==
    /\ wellnested
    /\ block_re(l) # None
    /\ MarkerSide(l) = "end" => (open # <<>> /\ open[Len(open)] = MarkerName(l))

OpenAfter(l) ==
    IF ~NestedAfter(l) THEN open
    ELSE IF MarkerSide(l) = "begin" THEN Append(open, MarkerName(l))
    ELSE Take(open, Len(open) - 1)

(***************************************************************************)
(* The parsing pass: one parse_org_line call per input line                *)
(***************************************************************************)
TfIdle == [pc |-> "idle"]
RsIdle == [pc |-> "idle"]
TkIdle == [pc |-> "idle"]
RdIdle == [pc |-> "idle"]
McIdle == [pc |-> "idle"]

\* the parts of the program a specification does not run
OthersIdle == tk = TkIdle /\ rd = RdIdle /\ mc = McIdle

ParserInit ==
    /\ state = OrgState
    /\ events = <<>>
    /\ line = <<>>
    /\ nlines = 0
    /\ open = <<>>
    /\ wellnested = TRUE

\* the pass after parse_org_line has returned r for the line l
Parsed(l, r) ==
    /\ state' = r.state
    /\ events' = r.events
    /\ line' = l
    /\ nlines' = nlines + 1
    /\ open' = OpenAfter(l)
    /\ wellnested' = NestedAfter(l)

ParseLine(l) == Parsed(l, parse_org_line(l, state))

Init == ParserInit /\ tf = TfIdle /\ rs = RsIdle /\ OthersIdle

Next == \E l \in Lines : nlines < MaxLines /\ ParseLine(l) /\ UNCHANGED <<tf, rs, tk, rd, mc>>

Spec == Init /\ [][Next]_vars

NextBlocks ==
    \E l \in BlockLines : nlines < MaxMarkers /\ ParseLine(l) /\ UNCHANGED <<tf, rs, tk, rd, mc>>

SpecBlocks == Init /\ [][NextBlocks]_vars

\* one line of text over the characters that matter to the table handler,
\* read by a fresh parser
TableCh == {"|", "-", "+", " ", "a"}
MaxTableLen == 4    \* characters of a line of SpecTable

TableTexts == UNION {[1..n -> TableCh] : n \in 1..MaxTableLen}

NextTable == \E l \in TableTexts : nlines = 0 /\ ParseLine(l) /\ UNCHANGED <<tf, rs, tk, rd, mc>>

SpecTable == Init /\ [][NextTable]_vars

(***************************************************************************)
(* The inline tokenizer on its own: one call of tokenize_inline_org_markup *)
(* on a text over the characters its branches look at, one action for each *)
(* iteration of the scan loop                                              *)
(***************************************************************************)
TokenCh == {"*", " ", "a", "$", "[", "]", "\\", "(", ")"}
MaxTokenLen == 4    \* characters of a text of SpecTokens

TokenTexts == UNION {[1..n -> TokenCh] : n \in 0..MaxTokenLen}

InitTokens ==
    /\ ParserInit
    /\ tf = TfIdle /\ rs = RsIdle /\ rd = RdIdle /\ mc = McIdle
    /\ \E text \in TokenTexts :
           tk = [pc |-> "scan", text |-> text, i |-> 1, tokens |-> <<>>, buffer |-> <<>>]

\* the locals of the call after one more iteration
AfterScanStep(t, c) == [t EXCEPT !.i = c.i, !.tokens = c.tokens, !.buffer = c.buffer]

\* lines 884-969: one iteration of "while i < len(text)"
TokenScan ==
    /\ tk.pc = "scan"
    /\ tk.i <= Len(tk.text)
    /\ tk' = AfterScanStep(tk, scan_step(tk.text, tk.i, tk.tokens, tk.buffer))
    /\ UNCHANGED <<state, events, line, nlines, open, wellnested, tf, rs, rd, mc>>

\* lines 972-973: the loop has ended, the buffer is flushed and the tokens
\* are returned
TokenReturn ==
    /\ tk.pc = "scan"
    /\ tk.i > Len(tk.text)
    /\ tk' = [tk EXCEPT !.pc = "done", !.tokens = flush_plaintext(tk.tokens, tk.buffer),
                        !.buffer = <<>>]
    /\ UNCHANGED <<state, events, line, nlines, open, wellnested, tf, rs, rd, mc>>

NextTokens == TokenScan \/ TokenReturn

SpecTokens == InitTokens /\ [][NextTokens]_vars

\* the call is run: the interpreter goes on with the loop until it returns
SpecTokensLive == InitTokens /\ [][NextTokens]_vars /\ WF_vars(NextTokens)

(***************************************************************************)
(* Properties of the block stack                                           *)
(***************************************************************************)
HasEvent(evs, types) == \E i \in 1..Len(evs) : evs[i].type \in types

Ignored(ev) == "orphan_ignored" \in DOMAIN ev \/ "mismatch_ignored" \in DOMAIN ev

BeginEmitted(evs) == HasEvent(evs, {"block_begin", "src_begin"})

MatchedEndEmitted(evs) ==
    \E i \in 1..Len(evs) :
        evs[i].type = "src_end" \/ (evs[i].type = "block_end" /\ ~Ignored(evs[i]))

IgnoredEnds(evs) == {i \in 1..Len(evs) : evs[i].type = "block_end" /\ Ignored(evs[i])}

BlockEnds(evs) == {i \in 1..Len(evs) : evs[i].type = "block_end"}

IsEndMarker(l) == block_re(l) # None /\ MarkerSide(l) = "end"

\* C1: in every reachable state is_inside_verbatim_block is true exactly when
\* some entry of block_verbatim_stack is true.
C1_VerbatimFlagIsAny ==
    state.is_inside_verbatim_block = AnyTrue(state.block_verbatim_stack)

\* a closer has just popped a non-verbatim block that was nested in a
\* verbatim one: the flag stays set although the new top is a verbatim block
\* below a popped entry
C1_Witness ==
    /\ MatchedEndEmitted(events)
    /\ Len(state.block_verbatim_stack) >= 2
    /\ state.block_verbatim_stack[1]
    /\ ~state.block_verbatim_stack[Len(state.block_verbatim_stack)]
    /\ state.is_inside_verbatim_block

\* C2: block_stack, block_verbatim_stack and src_options_stack have the same
\* length in every reachable state; a line that emits a begin event grows each
\* of them by exactly one entry, and a line that emits a matched end event
\* shrinks each of them by exactly one entry.
C2_StacksInLockstep ==
    /\ [](/\ Len(state.block_stack) = Len(state.block_verbatim_stack)
          /\ Len(state.block_stack) = Len(state.src_options_stack))
    /\ [][/\ BeginEmitted(events') =>
               /\ Len(state'.block_stack) = Len(state.block_stack) + 1
               /\ Len(state'.block_verbatim_stack) = Len(state.block_verbatim_stack) + 1
               /\ Len(state'.src_options_stack) = Len(state.src_options_stack) + 1
          /\ MatchedEndEmitted(events') =>
               /\ Len(state'.block_stack) = Len(state.block_stack) - 1
               /\ Len(state'.block_verbatim_stack) = Len(state.block_verbatim_stack) - 1
               /\ Len(state'.src_options_stack) = Len(state.src_options_stack) - 1]_vars

\* a matched closer has popped the inner of two nested blocks, one of them a
\* src block and one not
C2_Witness ==
    /\ MatchedEndEmitted(events)
    /\ Len(state.block_stack) = 2
    /\ S_src \in Range(state.block_stack)
    /\ Range(state.block_stack) # {S_src}
    /\ Len(state.src_options_stack) = 2

\* C3: is_inside_drawer and is_inside_comment are never both true.
C3_DrawerCommentExclusive == ~(state.is_inside_drawer /\ state.is_inside_comment)

\* C4: after the last line of a properly nested sequence of block marker
\* lines in which every begin has its end, block_stack is empty and both
\* is_inside_verbatim_block and is_inside_block are false.
C4_NestedMarkersEmptyStack ==
    (nlines > 0 /\ wellnested /\ open = <<>>) =>
        /\ state.block_stack = <<>>
        /\ ~state.is_inside_verbatim_block
        /\ ~state.is_inside_block

\* four or more marker lines, properly nested and all closed, the last one a
\* matched closer of a non-verbatim block
C4_Witness ==
    /\ nlines >= 4
    /\ wellnested
    /\ open = <<>>
    /\ line = L_end_center
    /\ MatchedEndEmitted(events)
    /\ state.block_stack = <<>>

\* C5: when no preamble, drawer or comment capture is active, an end marker
\* that finds the stack empty or a different block on top emits exactly one
\* block_end event, flagged as ignored, and changes none of block_stack,
\* block_verbatim_stack, src_options_stack, is_inside_verbatim_block and
\* pending_anchor.
C5_IgnoredEndChangesNothing ==
    [][(/\ ~state.is_in_preamble
        /\ ~state.is_inside_drawer
        /\ ~state.is_inside_comment
        /\ IsEndMarker(line')
        /\ \/ state.block_stack = <<>>
           \/ state.block_stack[Len(state.block_stack)] # MarkerName(line'))
       => /\ Cardinality(BlockEnds(events')) = 1
          /\ Cardinality(IgnoredEnds(events')) = 1
          /\ state'.block_stack = state.block_stack
          /\ state'.block_verbatim_stack = state.block_verbatim_stack
          /\ state'.src_options_stack = state.src_options_stack
          /\ state'.is_inside_verbatim_block = state.is_inside_verbatim_block
          /\ state'.pending_anchor = state.pending_anchor]_vars

\* a mismatched closer has been ignored while a block is open and an anchor
\* is pending
C5_Witness ==
    /\ IsEndMarker(line)
    /\ IgnoredEnds(events) # {}
    /\ "mismatch_ignored" \in DOMAIN events[1]
    /\ state.block_stack # <<>>
    /\ state.pending_anchor # None
    /\ ~state.is_in_preamble

(***************************************************************************)
(* Table formulas (org_to_html.py:212-427).                                *)
(*                                                                         *)
(* A Python float is modelled by an exact rational n/d (d > 0, lowest      *)
(* terms) or one of inf, -inf, nan; rounding to 53 bits and overflow to    *)
(* inf are not modelled, so the model is exact for the small values the    *)
(* inputs below produce.  The right-hand side of a formula is given as the *)
(* syntax tree ast.parse builds from it; an unparsable right-hand side is  *)
(* the tree [kind |-> "SyntaxError"].                                      *)
(***************************************************************************)
AbsInt(n) == IF n < 0 THEN -n ELSE n

RECURSIVE Gcd(_, _)
Gcd(a, b) == IF b = 0 THEN a ELSE Gcd(b, a % b)

Fin(n, d) ==
    LET g == Gcd(AbsInt(n), d)
    IN  [k |-> "fin", n |-> (IF n < 0 THEN -1 ELSE 1) * (AbsInt(n) \div g), d |-> d \div g]

Inf(sign) == [k |-> "inf", n |-> sign, d |-> 0]
NaN == [k |-> "nan", n |-> 0, d |-> 0]
Zero == Fin(0, 1)
SignOf(v) == IF v.n < 0 THEN -1 ELSE IF v.n > 0 THEN 1 ELSE 0

\* the outcome of a Python expression: a value, or the exception it raises
Ok(v) == [ok |-> TRUE, v |-> v, exc |-> ""]
Raise(e) == [ok |-> FALSE, v |-> NaN, exc |-> e]

RECURSIVE PowInt(_, _)
PowInt(b, e) == IF e = 0 THEN 1 ELSE b * PowInt(b, e - 1)

\* float arithmetic: a + b, -a, a * b, a / b
FAdd(a, b) ==
    IF a.k = "nan" \/ b.k = "nan" THEN NaN
    ELSE IF a.k = "inf" THEN (IF b.k = "inf" /\ b.n # a.n THEN NaN ELSE a)
    ELSE IF b.k = "inf" THEN b
    ELSE Fin(a.n * b.d + b.n * a.d, a.d * b.d)

FNeg(a) == IF a.k = "nan" THEN NaN ELSE [a EXCEPT !.n = -a.n]

FMul(a, b) ==
    IF a.k = "nan" \/ b.k = "nan" THEN NaN
    ELSE IF a.k = "inf" \/ b.k = "inf"
    THEN (IF SignOf(a) * SignOf(b) = 0 THEN NaN ELSE Inf(SignOf(a) * SignOf(b)))
    ELSE Fin(a.n * b.n, a.d * b.d)

FDiv(a, b) ==
    IF b.k = "fin" /\ b.n = 0 THEN Raise("ZeroDivisionError")
    ELSE IF a.k = "nan" \/ b.k = "nan" THEN Ok(NaN)
    ELSE IF a.k = "inf" THEN (IF b.k = "inf" THEN Ok(NaN) ELSE Ok(Inf(a.n * SignOf(b))))
    ELSE IF b.k = "inf" THEN Ok(Zero)
    ELSE Ok(Fin(a.n * b.d * SignOf(b), a.d * AbsInt(b.n)))

\* a % b on finite operands, a ** b for a natural number b
FMod(a, b) ==
    IF b.k = "fin" /\ b.n = 0 THEN Raise("ZeroDivisionError")
    ELSE IF a.k # "fin" \/ b.k # "fin" THEN Raise("Unmodelled")
    ELSE LET q == (a.n * b.d * SignOf(b)) \div (a.d * AbsInt(b.n))
         IN  Ok(FAdd(a, FNeg(FMul(Fin(q, 1), b))))

FPow(a, b) ==
    IF b.k = "fin" /\ b.n = 0 THEN Ok(Fin(1, 1))
    ELSE IF a.k = "fin" /\ b.k = "fin" /\ b.d = 1 /\ b.n > 0
    THEN Ok(Fin(PowInt(a.n, b.n), PowInt(a.d, b.n)))
    ELSE IF a.k = "fin" /\ a.n = 0 /\ b.k = "fin" /\ b.n < 0 THEN Raise("ZeroDivisionError")
    ELSE Raise("Unmodelled")

S_inf == <<"i", "n", "f">>
S_infinity == <<"i", "n", "f", "i", "n", "i", "t", "y">>
S_nan == <<"n", "a", "n">>

\* float(s) for the decimal forms [sign] digits [. digits], inf and nan;
\* None stands for ValueError
ParseDecimal(sign, body, dot) ==
    LET ip == IF dot = 0 THEN body ELSE Take(body, dot - 1)
        fp == IF dot = 0 THEN <<>> ELSE Drop(body, dot)
    IN  IF /\ Len(ip) + Len(fp) > 0
           /\ \A i \in 1..Len(ip) : ip[i] \in DigitCh
           /\ \A i \in 1..Len(fp) : fp[i] \in DigitCh
        THEN Some(Fin(sign * IntOf(ip \o fp), PowInt(10, Len(fp))))
        ELSE None

ParseUnsigned(sign, body) ==
    IF LowerStr(body) \in {S_inf, S_infinity} THEN Some(Inf(sign))
    ELSE IF LowerStr(body) = S_nan THEN Some(NaN)
    ELSE ParseDecimal(sign, body, Find(body, <<".">>))

ParseStripped(s) ==
    LET signed == s # <<>> /\ Head(s) \in {"+", "-"}
    IN  ParseUnsigned(IF signed /\ Head(s) = "-" THEN -1 ELSE 1,
                      IF signed THEN Tail(s) ELSE s)

ParseFloat(text) == ParseStripped(Strip(text))

\* str.replace(",", ".")
RECURSIVE CommaToDot(_)
CommaToDot(s) ==
    IF s = <<>> THEN <<>>
    ELSE <<IF Head(s) = "," THEN "." ELSE Head(s)>> \o CommaToDot(Tail(s))

\* try: return float(...) except ValueError: otherwise
FloatOr(parsed, otherwise) == IF parsed # None THEN parsed[1] ELSE otherwise

CoerceStripped(s) ==
    IF s = <<>> THEN Zero
    ELSE FloatOr(ParseFloat(s), FloatOr(ParseFloat(CommaToDot(s)), Zero))

coerce_number(value) == CoerceStripped(Strip(value))

\* str(n) for an integer n
RECURSIVE NatStr(_)
NatStr(n) == IF n < 10 THEN <<DigitSeq[n + 1]>> ELSE NatStr(n \div 10) \o <<DigitSeq[(n % 10) + 1]>>

IntStr(n) == IF n < 0 THEN <<"-">> \o NatStr(-n) ELSE NatStr(n)

ReprDigits == 16    \* fraction digits str(float) is followed to

\* the fraction digits of r/d, r < d
RECURSIVE FracDigits(_, _, _)
FracDigits(r, d, left) ==
    IF r = 0 \/ left = 0 THEN <<>>
    ELSE <<DigitSeq[((r * 10) \div d) + 1]>> \o FracDigits((r * 10) % d, d, left - 1)

\* str(x) for a finite float that is not integral
FloatStr(x) ==
    (IF x.n < 0 THEN <<"-">> ELSE <<>>)
        \o NatStr(AbsInt(x.n) \div x.d) \o <<".">>
        \o FracDigits(AbsInt(x.n) % x.d, x.d, ReprDigits)

\* _format_result: round(x) raises on inf and nan; a rational of small
\* denominator is within 1e-12 of an integer only when it is one
format_result(x) ==
    IF x.k = "inf" THEN [ok |-> FALSE, text |-> <<>>, exc |-> "OverflowError"]
    ELSE IF x.k = "nan" THEN [ok |-> FALSE, text |-> <<>>, exc |-> "ValueError"]
    ELSE IF x.d = 1 THEN [ok |-> TRUE, text |-> IntStr(x.n), exc |-> ""]
    ELSE [ok |-> TRUE, text |-> FloatStr(x), exc |-> ""]

(***************************************************************************)
(* Syntax trees.  A node is a record with a kind: Constant(value),         *)
(* Name(id), UnaryOp(op, operand), BinOp(op, left, right),                 *)
(* Call(func, args, keywords), Attribute(obj, attr), Compare(left, right), *)
(* keyword(arg, value),                                                    *)
(* and, before the references of a formula are rewritten, ColRef(n) for    *)
(* $n, PrevCol(n) for @-1$n and PrevSame for a bare @-1.                   *)
(***************************************************************************)
Const(v) == [kind |-> "Constant", value |-> v]
Name(base, n) == [kind |-> "Name", id |-> [base |-> base, n |-> n]]
UnaryOp(op, x) == [kind |-> "UnaryOp", op |-> op, operand |-> x]
BinOp(l, op, r) == [kind |-> "BinOp", op |-> op, left |-> l, right |-> r]
Call(f, args, kw) == [kind |-> "Call", func |-> f, args |-> args, keywords |-> kw]
Attribute(x, attr) == [kind |-> "Attribute", obj |-> x, attr |-> attr]
Compare(l, r) == [kind |-> "Compare", left |-> l, right |-> r]
ColRef(n) == [kind |-> "ColRef", n |-> n]
PrevCol(n) == [kind |-> "PrevCol", n |-> n]
PrevSame == [kind |-> "PrevSame"]
Keyword(arg, x) == [kind |-> "keyword", arg |-> arg, value |-> x]
Unparsable == [kind |-> "SyntaxError"]

\* the rewriting of lines 399-409: '^' becomes '**', @-1$K becomes pK, a
\* bare @-1 becomes p<dest_col>, $N becomes cN
RECURSIVE RewriteRefs(_, _)
RECURSIVE RewriteAll(_, _)
RewriteAll(nodes, dest_col) ==
    IF nodes = <<>> THEN <<>>
    ELSE <<RewriteRefs(Head(nodes), dest_col)>> \o RewriteAll(Tail(nodes), dest_col)

RewriteRefs(node, dest_col) ==
    CASE node.kind = "ColRef" -> Name("c", node.n)
      [] node.kind = "PrevCol" -> Name("p", node.n)
      [] node.kind = "PrevSame" -> Name("p", dest_col)
      [] node.kind = "UnaryOp" ->
            UnaryOp(node.op, RewriteRefs(node.operand, dest_col))
      [] node.kind = "BinOp" ->
            BinOp(RewriteRefs(node.left, dest_col),
                  IF node.op = "Caret" THEN "Pow" ELSE node.op,
                  RewriteRefs(node.right, dest_col))
      [] node.kind = "Call" ->
            Call(RewriteRefs(node.func, dest_col), RewriteAll(node.args, dest_col),
                 RewriteAll(node.keywords, dest_col))
      [] node.kind = "Attribute" -> Attribute(RewriteRefs(node.obj, dest_col), node.attr)
      [] node.kind = "Compare" ->
            Compare(RewriteRefs(node.left, dest_col), RewriteRefs(node.right, dest_col))
      [] node.kind = "keyword" ->
            [kind |-> "keyword", arg |-> node.arg, value |-> RewriteRefs(node.value, dest_col)]
      [] OTHER -> node

\* ast.parse(expr, mode="eval")
ast_parse(tree) == [kind |-> "Expression", body |-> tree]

\* the child nodes of a node, operator and context nodes included
Children(node) ==
    CASE node.kind = "Expression" -> <<node.body>>
      [] node.kind = "UnaryOp" -> <<[kind |-> node.op], node.operand>>
      [] node.kind = "BinOp" -> <<node.left, [kind |-> node.op], node.right>>
      [] node.kind = "Name" -> <<[kind |-> "Load"]>>
      [] node.kind = "Call" -> <<node.func>> \o node.args \o node.keywords
      [] node.kind = "Attribute" -> <<node.obj, [kind |-> "Load"]>>
      [] node.kind = "Compare" -> <<node.left, [kind |-> "Lt"], node.right>>
      [] node.kind = "keyword" -> <<node.value>>
      [] OTHER -> <<>>

\* a walk that stops at the root
WalkNodes_RootOnly(node) == <<node>>

\* ast.walk(node): the node and all its descendants
RECURSIVE WalkNodes(_)
WalkNodes(node) ==
    LET RECURSIVE WalkEach(_)
        WalkEach(nodes) ==
            IF nodes = <<>> THEN <<>> ELSE WalkNodes(Head(nodes)) \o WalkEach(Tail(nodes))
    IN  <<node>> \o WalkEach(Children(node))

allowed_funcs == {"abs", "round", "min", "max", "int", "float", "sqrt"}

allowed_nodes ==
    {"Expression", "BinOp", "UnaryOp", "Add", "Sub", "Mult", "Div", "Mod", "Pow",
     "USub", "UAdd", "Constant", "Name", "Load", "Call"}

\* the test the loop of lines 270-278 makes on one node
Disallowed(sub) ==
    \/ sub.kind \notin allowed_nodes
    \/ /\ sub.kind = "Call"
       /\ \/ sub.func.kind # "Name"
          \/ sub.func.id.base \notin allowed_funcs

\* a <= b on floats that are not nan
FLe(a, b) ==
    IF a.k = "inf" THEN a.n < 0 \/ (b.k = "inf" /\ b.n > 0)
    ELSE IF b.k = "inf" THEN b.n > 0
    ELSE a.n * b.d <= b.n * a.d

\* the functions of allowed_funcs applied to evaluated arguments
ApplyFunc(f, args) ==
    CASE f = "abs" /\ Len(args) = 1 ->
            Ok(IF args[1].k = "nan" THEN NaN ELSE [args[1] EXCEPT !.n = AbsInt(@)])
      [] f = "float" /\ Len(args) = 1 -> Ok(args[1])
      [] f = "float" /\ Len(args) = 0 -> Ok(Zero)
      [] f = "int" /\ Len(args) = 1 ->
            IF args[1].k = "inf" THEN Raise("OverflowError")
            ELSE IF args[1].k = "nan" THEN Raise("ValueError")
            ELSE Ok(Fin(SignOf(args[1]) * (AbsInt(args[1].n) \div args[1].d), 1))
      [] f = "int" /\ Len(args) = 0 -> Ok(Zero)
      [] f \in {"min", "max"} /\ Len(args) = 2 /\ args[1].k # "nan" /\ args[2].k # "nan" ->
            IF (f = "min") = FLe(args[1], args[2]) THEN Ok(args[1]) ELSE Ok(args[2])
      [] f \in {"abs", "min", "max"} /\ Len(args) < 2 -> Raise("TypeError")
      [] f \in {"abs", "float"} /\ Len(args) > 1 -> Raise("TypeError")
      [] OTHER -> Raise("Unmodelled")

\* eval(compiled, {"__builtins__": {}}, env) on a tree that passed the walk;
\* env holds the allowed functions and the names c1.., p1..
RECURSIVE Eval(_, _)
Eval(node, names) ==
    CASE node.kind = "Constant" -> Ok(node.value)
      [] node.kind = "Name" ->
            IF node.id.base \in {"c", "p"} /\ node.id.n \in 1..Len(names[node.id.base])
            THEN Ok(names[node.id.base][node.id.n])
            ELSE IF node.id.base \in allowed_funcs THEN Raise("TypeError")
            ELSE Raise("NameError")
      [] node.kind = "UnaryOp" ->
            LET x == Eval(node.operand, names)
            IN  IF ~x.ok THEN x
                ELSE IF node.op = "USub" THEN Ok(FNeg(x.v))
                ELSE x
      [] node.kind = "BinOp" ->
            LET l == Eval(node.left, names)
                r == Eval(node.right, names)
            IN  IF ~l.ok THEN l
                ELSE IF ~r.ok THEN r
                ELSE CASE node.op = "Add" -> Ok(FAdd(l.v, r.v))
                       [] node.op = "Sub" -> Ok(FAdd(l.v, FNeg(r.v)))
                       [] node.op = "Mult" -> Ok(FMul(l.v, r.v))
                       [] node.op = "Div" -> FDiv(l.v, r.v)
                       [] node.op = "Mod" -> FMod(l.v, r.v)
                       [] node.op = "Pow" -> FPow(l.v, r.v)
                       [] OTHER -> Raise("Unmodelled")
      [] node.kind = "Call" ->
            LET RECURSIVE EvalArgs(_)
                EvalArgs(args) ==
                    IF args = <<>> THEN <<>>
                    ELSE <<Eval(Head(args), names)>> \o EvalArgs(Tail(args))
                outs == EvalArgs(node.args)
                bad == {i \in 1..Len(outs) : ~outs[i].ok}
                vals == MapSeq(LAMBDA o : o.v, outs)
            IN  IF bad # {} THEN outs[CHOOSE i \in bad : \A j \in bad : i <= j]
                ELSE ApplyFunc(node.func.id.base, vals)
      [] OTHER -> Raise("Unmodelled")

\* the outcome of lines 280-283, reached only past the allow-list loop
Evaluated(r) == [ok |-> r.ok, v |-> r.v, exc |-> r.exc, evaluated |-> TRUE]

\* _safe_eval: the walk rejects before compile() and eval() are reached;
\* evaluated records whether eval() was reached
safe_eval(expr, names) ==
    IF expr.kind = "SyntaxError"
    THEN [ok |-> FALSE, v |-> NaN, exc |-> "SyntaxError", evaluated |-> FALSE]
    ELSE IF \E sub \in Range(WalkNodes(ast_parse(expr))) : Disallowed(sub)
    THEN [ok |-> FALSE, v |-> NaN, exc |-> "ValueError", evaluated |-> FALSE]
    ELSE Evaluated(Eval(ast_parse(expr).body, names))

\* _TBLFM_LHS_RE: ^\s*(\$\>|\$\d+)\s*$
TBLFM_LHS_RE(lhs) ==
    LET s == Strip(lhs)
    IN  \/ s = <<"$", ">">>
        \/ /\ Len(s) >= 2
           /\ s[1] = "$"
           /\ \A i \in 2..Len(s) : s[i] \in DigitCh

\* _parse_tblfm_assignments.  A formula is given by what raw.split(";")[0]
\* splits into at its first "=": eq says there is one, lhs is the text before
\* it and rhs the tree of the text after it, None when that text is blank.
RECURSIVE parse_tblfm_assignments(_, _)
parse_tblfm_assignments(formulas, max_cols) ==
    IF formulas = <<>> THEN <<>>
    ELSE LET raw == Head(formulas)
             lhs == Strip(raw.lhs)
             dest == IF lhs = <<"$", ">">> THEN max_cols ELSE IntOf(Drop(lhs, 1))
             keep == /\ raw.eq
                     /\ raw.rhs # None
                     /\ TBLFM_LHS_RE(lhs)
                     /\ dest > 0
         IN  (IF keep THEN <<[dest_col |-> dest, rhs |-> raw.rhs[1]]>> ELSE <<>>)
                 \o parse_tblfm_assignments(Tail(formulas), max_cols)

(***************************************************************************)
(* _apply_column_formulas_to_table as a step machine.  tf holds its        *)
(* arguments and locals; positions are 1-based.  pc is "start" before the  *)
(* preparation of lines 344-376, "rows" at the head of the row loop,       *)
(* "formulas" at the head of the assignment loop, "done" after a return    *)
(* and "raised" when an exception leaves the function.                     *)
(***************************************************************************)
HLine == [type |-> "hline"]
Row(cells) == [type |-> "row", cells |-> cells]

TblfmStart(table_rows, tblfm_formulas) ==
    [pc |-> "start",
     table_rows |-> table_rows,
     tblfm_formulas |-> tblfm_formulas,
     input_rows |-> table_rows,
     max_cols |-> 0,
     assignments |-> <<>>,
     first_hline |-> None,
     idx |-> 0,
     k |-> 0,
     names |-> [c |-> <<>>, p |-> <<>>],
     prev_data_row_cells |-> None,
     exc |-> "",
     evaluated |-> FALSE,
     log |-> <<>>]

RECURSIVE MaxColsOf(_)
MaxColsOf(rows) ==
    IF rows = <<>> THEN 0
    ELSE LET rest == MaxColsOf(Tail(rows))
             here == IF Head(rows).type = "row" THEN Len(Head(rows).cells) ELSE 0
         IN  IF here > rest THEN here ELSE rest

RECURSIVE Blanks(_)
Blanks(n) == IF n <= 0 THEN <<>> ELSE <<<<>>>> \o Blanks(n - 1)

PadRow(r, max_cols) ==
    IF r.type = "row" THEN [r EXCEPT !.cells = @ \o Blanks(max_cols - Len(@))] ELSE r

\* lines 363-370: the first hline that has a row below it, None if none
FirstHline(rows) ==
    LET hs == {i \in 1..Len(rows) :
                  /\ rows[i].type = "hline"
                  /\ \E j \in (i + 1)..Len(rows) : rows[j].type = "row"}
    IN  IF hs = {} THEN None ELSE Some(CHOOSE i \in hs : \A j \in hs : i <= j)

\* no row counts as a header row
is_header_row_Never(t, idx) == FALSE

is_header_row(t, idx) == t.first_hline # None /\ idx < t.first_hline[1]

RECURSIVE Zeros(_)
Zeros(n) == IF n <= 0 THEN <<>> ELSE <<Zero>> \o Zeros(n - 1)

\* lines 344-376
tblfm_prepared(t, max_cols, padded, assignments) ==
    IF max_cols = 0 THEN [t EXCEPT !.pc = "done"]
    ELSE IF assignments = <<>>
    THEN [t EXCEPT !.pc = "done", !.table_rows = padded, !.max_cols = max_cols]
    ELSE [t EXCEPT !.pc = "rows",
                   !.table_rows = padded,
                   !.max_cols = max_cols,
                   !.assignments = assignments,
                   !.first_hline = FirstHline(padded),
                   !.idx = 1,
                   !.prev_data_row_cells = None]

PadRows(rows, max_cols) == MapSeq(LAMBDA r : PadRow(r, max_cols), rows)

tblfm_measured(t, max_cols) ==
    tblfm_prepared(t, max_cols, PadRows(t.table_rows, max_cols),
                   parse_tblfm_assignments(t.tblfm_formulas, max_cols))

tblfm_prepare(t) == tblfm_measured(t, MaxColsOf(t.table_rows))

\* lines 378-396: the head of the row loop
tblfm_enter_row(t) ==
    LET r == t.table_rows[t.idx]
    IN  IF t.idx > Len(t.table_rows) THEN [t EXCEPT !.pc = "done"]
        ELSE IF r.type # "row" \/ is_header_row(t, t.idx) THEN [t EXCEPT !.idx = @ + 1]
        ELSE [t EXCEPT !.pc = "formulas",
                       !.k = 1,
                       !.names =
                           [c |-> MapSeq(coerce_number, r.cells),
                            p |-> IF t.prev_data_row_cells = None
                                  THEN Zeros(t.max_cols)
                                  ELSE MapSeq(coerce_number, t.prev_data_row_cells[1])]]

\* the expression line 415 evaluates for assignment k
CurrentExpr(t) == RewriteRefs(t.assignments[t.k].rhs, t.assignments[t.k].dest_col)

\* an uncaught handler: the exception leaves the function
OnEvalFailure_Propagates(t, r) ==
    [t EXCEPT !.pc = "raised", !.exc = r.exc, !.evaluated = r.evaluated,
              !.log = Append(@, [idx |-> t.idx, k |-> t.k, outcome |-> "raised"])]

\* lines 416-418: except Exception: continue
OnEvalFailure(t, r) ==
    [t EXCEPT !.k = @ + 1, !.evaluated = r.evaluated,
              !.log = Append(@, [idx |-> t.idx, k |-> t.k, outcome |-> "failed"])]

\* lines 398-425: one pass of the assignment loop
\* an exception outside the try block leaves the function
tblfm_raise(t, r, e) ==
    [t EXCEPT !.pc = "raised", !.exc = e, !.evaluated = r.evaluated,
              !.log = Append(@, [idx |-> t.idx, k |-> t.k, outcome |-> "raised"])]

\* lines 421-425 for a destination inside the row: fr is _format_result(result)
tblfm_write(t, dest_col, r, fr) ==
    IF ~fr.ok THEN tblfm_raise(t, r, fr.exc)
    ELSE [t EXCEPT !.table_rows[t.idx].cells[dest_col] = fr.text,
                   !.names.c[dest_col] = coerce_number(fr.text),
                   !.k = @ + 1,
                   !.evaluated = r.evaluated,
                   !.log = Append(@, [idx |-> t.idx, k |-> t.k, outcome |-> "written"])]

\* lines 414-425: r is the outcome of _safe_eval(expr, names)
tblfm_after_eval(t, dest_col, r) ==
    IF ~r.ok THEN OnEvalFailure(t, r)
    ELSE IF dest_col > t.max_cols THEN tblfm_raise(t, r, "IndexError")
    ELSE tblfm_write(t, dest_col, r, format_result(r.v))

tblfm_apply_formula(t) ==
    tblfm_after_eval(t, t.assignments[t.k].dest_col, safe_eval(CurrentExpr(t), t.names))

\* the row is left without recording its cells
tblfm_leave_row_Forgets(t) == [t EXCEPT !.idx = @ + 1, !.pc = "rows"]

\* line 427 and the step to the next row
tblfm_leave_row(t) ==
    [t EXCEPT !.prev_data_row_cells = Some(t.table_rows[t.idx].cells),
              !.idx = @ + 1,
              !.pc = "rows"]

\* the function from call to return or raise
tblfm_step(t) ==
    CASE t.pc = "start" -> tblfm_prepare(t)
      [] t.pc = "rows" -> tblfm_enter_row(t)
      [] t.pc = "formulas" /\ t.k <= Len(t.assignments) -> tblfm_apply_formula(t)
      [] t.pc = "formulas" /\ t.k > Len(t.assignments) -> tblfm_leave_row(t)
      [] OTHER -> t

RECURSIVE tblfm_run(_)
tblfm_run(t) == IF t.pc \in {"done", "raised"} THEN t ELSE tblfm_run(tblfm_step(t))

apply_column_formulas_to_table(table_rows, tblfm_formulas) ==
    tblfm_run(TblfmStart(table_rows, tblfm_formulas))

(***************************************************************************)
(* Inputs of the formula pass: tables and #+TBLFM formula lists            *)
(***************************************************************************)
R_ab == Row(<<<<"a">>, <<"b">>>>)        \* | a | b |
R_12 == Row(<<<<"1">>, <<"2">>>>)        \* | 1 | 2 |
R_3 == Row(<<<<"3">>>>)                  \* | 3 |

RowChoices == {HLine, R_ab, R_12, R_3}

One == Fin(1, 1)
Two == Fin(2, 1)

Formula(lhs, rhs) == [lhs |-> lhs, eq |-> TRUE, rhs |-> Some(rhs)]

F_sum3 == Formula(<<"$", "3">>, BinOp(ColRef(1), "Add", ColRef(2)))      \* $3=$1+$2
F_div0 == Formula(<<"$", "2">>, BinOp(ColRef(1), "Div", Const(Zero)))    \* $2=$1/0
F_inc == Formula(<<"$", "1">>, BinOp(ColRef(2), "Add", Const(One)))      \* $1=$2+1
F_run == Formula(<<"$", ">">>, BinOp(PrevSame, "Add", ColRef(1)))        \* $>=@-1+$1
F_half == Formula(<<"$", "2">>, BinOp(PrevCol(1), "Div", Const(Two)))    \* $2=@-1$1/2
F_sq == Formula(<<"$", "1">>, BinOp(ColRef(1), "Caret", Const(Two)))     \* $1=$1^2
F_abs == Formula(<<"$", "1">>,
                 Call(Name("abs", 0), <<UnaryOp("USub", ColRef(2))>>, <<>>))   \* $1=abs(-$2)
F_attr == Formula(<<"$", "2">>, Attribute(ColRef(1), "real"))            \* $2=$1.real
F_floor == Formula(<<"$", "1">>, BinOp(ColRef(2), "FloorDiv", Const(One)))   \* $1=$2//1
F_len == Formula(<<"$", "1">>, Call(Name("len", 0), <<ColRef(2)>>, <<>>))    \* $1=len($2)
F_huge == Formula(<<"$", "1">>, Const(Inf(1)))                           \* $1=1e999
F_field == Formula(<<"@", "2", "$", "1">>, Const(One))                   \* @2$1=1
F_col0 == Formula(<<"$", "0">>, Const(One))                              \* $0=1
F_norhs == [lhs |-> <<"$", "1">>, eq |-> TRUE, rhs |-> None]             \* $1=
F_noeq == [lhs |-> <<"$", "1">>, eq |-> FALSE, rhs |-> None]             \* $1

Formulas ==
    {F_sum3, F_div0, F_inc, F_run, F_half, F_sq, F_abs, F_attr, F_floor, F_len,
     F_huge, F_field, F_col0, F_norhs, F_noeq}

MaxRows == 3    \* rows and hlines of an input table

Tables == UNION {[1..n -> RowChoices] : n \in 1..MaxRows}

\* the formulas a two-formula list starts with
FirstFormulas == {F_div0, F_attr, F_inc, F_run, F_sum3}

\* one formula, or two
FormulaLists ==
    {<<f>> : f \in Formulas} \cup {<<f, g>> : f \in FirstFormulas, g \in Formulas}

(***************************************************************************)
(* The formula pass on its own                                             *)
(***************************************************************************)
InitTblfm ==
    /\ ParserInit
    /\ rs = RsIdle
    /\ OthersIdle
    /\ \E table_rows \in Tables, tblfm_formulas \in FormulaLists :
           tf = TblfmStart(table_rows, tblfm_formulas)

TblfmPrepare ==
    /\ tf.pc = "start"
    /\ tf' = tblfm_prepare(tf)
    /\ UNCHANGED <<state, events, line, nlines, open, wellnested, rs, tk, rd, mc>>

TblfmEnterRow ==
    /\ tf.pc = "rows"
    /\ tf' = tblfm_enter_row(tf)
    /\ UNCHANGED <<state, events, line, nlines, open, wellnested, rs, tk, rd, mc>>

TblfmApplyFormula ==
    /\ tf.pc = "formulas"
    /\ tf.k <= Len(tf.assignments)
    /\ tf' = tblfm_apply_formula(tf)
    /\ UNCHANGED <<state, events, line, nlines, open, wellnested, rs, tk, rd, mc>>

TblfmLeaveRow ==
    /\ tf.pc = "formulas"
    /\ tf.k > Len(tf.assignments)
    /\ tf' = tblfm_leave_row(tf)
    /\ UNCHANGED <<state, events, line, nlines, open, wellnested, rs, tk, rd, mc>>

NextTblfm == TblfmPrepare \/ TblfmEnterRow \/ TblfmApplyFormula \/ TblfmLeaveRow

SpecTblfm == InitTblfm /\ [][NextTblfm]_vars

(***************************************************************************)
(* Properties of the formula pass                                          *)
(***************************************************************************)
ApplyingFormula == tf.pc = "formulas" /\ tf.k <= Len(tf.assignments)

\* the tree has a node the allow-list of _safe_eval does not admit
RECURSIVE HasNodeOutsideAllowList(_)
HasNodeOutsideAllowList(node) ==
    \/ Disallowed(node)
    \/ \E i \in 1..Len(Children(node)) : HasNodeOutsideAllowList(Children(node)[i])

DataRows(t) ==
    {i \in 1..Len(t.table_rows) : t.table_rows[i].type = "row" /\ ~is_header_row(t, i)}

Logged(t, idx, k, outcomes) ==
    \E e \in 1..Len(t.log) :
        t.log[e].idx = idx /\ t.log[e].k = k /\ t.log[e].outcome \in outcomes

\* C7: _apply_column_formulas_to_table never raises to its caller.
C7_NeverRaises == tf.pc # "raised"

\* C8: when the evaluation of a formula fails for a row, the table is left as
\* it was and the pass goes on with the next formula of the same row; a pass
\* that returns has evaluated every formula on every data row.
C8_FailSoft ==
    /\ [][(ApplyingFormula /\ ~safe_eval(CurrentExpr(tf), tf.names).ok)
            => /\ tf'.table_rows = tf.table_rows
               /\ tf'.pc = "formulas"
               /\ tf'.idx = tf.idx
               /\ tf'.k = tf.k + 1
               /\ tf'.assignments = tf.assignments]_vars
    /\ []((tf.pc = "done" /\ tf.assignments # <<>>)
            => \A idx \in DataRows(tf) : \A k \in 1..Len(tf.assignments) :
                   Logged(tf, idx, k, {"failed", "written"}))

\* a pass has returned in which a formula failed on a row, a later formula
\* wrote to the same row and a formula wrote to a later row
C8_Witness ==
    /\ tf.pc = "done"
    /\ \E a, b, c \in 1..Len(tf.log) :
           /\ tf.log[a].outcome = "failed"
           /\ tf.log[b].outcome = "written"
           /\ tf.log[b].idx = tf.log[a].idx
           /\ tf.log[b].k > tf.log[a].k
           /\ tf.log[c].outcome = "written"
           /\ tf.log[c].idx > tf.log[a].idx

\* C9: for the rows [a,b], hline, [1,2] and the formula $3=$1+$2 the pass
\* returns with every row padded to three columns and the body row [1,2,3].
C9_PadsToThreeColumns ==
    (/\ tf.input_rows = <<R_ab, HLine, R_12>>
     /\ tf.tblfm_formulas = <<F_sum3>>
     /\ tf.pc \in {"done", "raised"})
    => /\ tf.pc = "done"
       /\ tf.table_rows = <<Row(<<<<"a">>, <<"b">>, <<>>>>), HLine,
                            Row(<<<<"1">>, <<"2">>, <<"3">>>>)>>

\* C10: an expression whose tree has a node outside the allow-list is
\* rejected before eval() is reached, and the step that rejects it leaves
\* every cell of the table unchanged.
C10_RejectedBeforeEvaluation ==
    [][(ApplyingFormula /\ HasNodeOutsideAllowList(ast_parse(CurrentExpr(tf))))
         => /\ ~tf'.evaluated
            /\ tf'.table_rows = tf.table_rows]_vars

\* the pass has just rejected a formula whose disallowed node lies below the
\* root of its tree, on a row whose destination cell holds a value
C10_Witness ==
    /\ tf.pc = "formulas"
    /\ tf.k > 1
    /\ tf.log # <<>>
    /\ tf.log[Len(tf.log)].outcome = "failed"
    /\ ~tf.evaluated
    /\ LET a == tf.assignments[tf.k - 1]
       IN  /\ HasNodeOutsideAllowList(ast_parse(RewriteRefs(a.rhs, a.dest_col)))
           /\ ~Disallowed(RewriteRefs(a.rhs, a.dest_col))
           /\ tf.table_rows[tf.idx].cells[a.dest_col] # <<>>

\* rows of the table as it was passed in that lie before its first hline
\* with a row below it
HeaderRowsOf(rows) ==
    {i \in 1..Len(rows) :
        /\ rows[i].type = "row"
        /\ FirstHline(rows) # None
        /\ i < FirstHline(rows)[1]}

\* rows of the table as it was passed in that formulas are applied to
BodyRowsOf(rows) == {i \in 1..Len(rows) : rows[i].type = "row"} \ HeaderRowsOf(rows)

\* C11: for any formula list, the cells of a header row (a row before the
\* first hline that has a row below it) keep the values they were passed in
\* with; the pass at most pads the row with empty cells.
C11_HeaderRowsUntouched ==
    \A i \in HeaderRowsOf(tf.input_rows) :
        tf.table_rows[i] \in
            {tf.input_rows[i], PadRow(tf.input_rows[i], MaxColsOf(tf.input_rows))}

\* the pass has returned for a table whose header row and body row were
\* passed in with the same cells, and a formula has rewritten the body row
C11_Witness ==
    /\ tf.pc = "done"
    /\ \E h \in HeaderRowsOf(tf.input_rows), b \in BodyRowsOf(tf.input_rows) :
           /\ tf.input_rows[h] = tf.input_rows[b]
           /\ tf.table_rows[h] = tf.input_rows[h]
           /\ tf.table_rows[b] # tf.input_rows[b]
           /\ Logged(tf, b, 1, {"written"})

\* the body rows above row idx
BodyRowsAbove(t, idx) == {i \in BodyRowsOf(t.input_rows) : i < idx}

\* the nearest body row above row idx
PrecedingBodyRow(t, idx) ==
    CHOOSE i \in BodyRowsAbove(t, idx) : \A j \in BodyRowsAbove(t, idx) : j <= i

\* C12: while the formulas of a row are applied, p1..pN are all 0 when no body
\* row lies above it, and otherwise the numbers of the cells of the nearest
\* body row above as its formulas left them; header rows and hlines in
\* between do not count.
C12_PreviousRowBindings ==
    (tf.pc = "formulas")
    => /\ tf.idx \in BodyRowsOf(tf.input_rows)
       /\ Len(tf.names.p) = tf.max_cols
       /\ tf.names.p =
            IF BodyRowsAbove(tf, tf.idx) = {}
            THEN Zeros(tf.max_cols)
            ELSE MapSeq(coerce_number, tf.table_rows[PrecedingBodyRow(tf, tf.idx)].cells)

\* formulas are being applied to a row whose nearest body row above was
\* rewritten by a formula, so that p differs from what the input table held
C12_Witness ==
    /\ tf.pc = "formulas"
    /\ BodyRowsAbove(tf, tf.idx) # {}
    /\ LET prev == PrecedingBodyRow(tf, tf.idx)
       IN  /\ Logged(tf, prev, 1, {"written"})
           /\ tf.names.p # Zeros(tf.max_cols)
           /\ tf.names.p #
                MapSeq(coerce_number, PadRow(tf.input_rows[prev], tf.max_cols).cells)

(***************************************************************************)
(* The renderer (org_to_html.py:662-1595).  rs holds the locals of         *)
(* render_org_to_html_body.  html_out is a sequence of elements, one per   *)
(* piece of markup: a record with the element kind el, the id attribute    *)
(* the markup carries (None when it has none) and what the markup is built *)
(* from.  Inline markup is kept as the token list and the macro preamble   *)
(* given to render_inline_tokens.                                          *)
(***************************************************************************)
S_noexport == <<"n", "o", "e", "x", "p", "o", "r", "t">>
S_verse == <<"v", "e", "r", "s", "e">>
S_RESULTS == <<"#", "+", "R", "E", "S", "U", "L", "T", "S">>

\* sep.join(parts)
RECURSIVE JoinSep(_, _)
JoinSep(parts, sep) ==
    IF parts = <<>> THEN <<>>
    ELSE IF Len(parts) = 1 THEN parts[1]
    ELSE parts[1] \o sep \o JoinSep(Tail(parts), sep)

\* a or b on optional strings
OrElse(a, b) == IF a # None THEN a ELSE b

El(el, id, body) == [el |-> el, id |-> id, body |-> body]

RenderInit ==
    [pc |-> "loop",
     html_out |-> <<>>,
     paragraph_buffer |-> <<>>,
     inside_pre |-> FALSE,
     pre_lines |-> <<>>,
     pre_open_event |-> None,
     inside_container |-> FALSE,
     container_name |-> None,
     container_anchor |-> None,
     inside_ul |-> FALSE,
     inside_ol |-> FALSE,
     inside_table |-> FALSE,
     table_buffer |-> <<>>,
     table_tblfm |-> <<>>,
     table_anchor |-> None,
     table_caption |-> None,
     table_collecting |-> FALSE,
     inside_verse |-> FALSE,
     verse_lines |-> <<>>,
     verse_open_event |-> None,
     anchor_pending |-> None,
     caption_pending_tokens |-> None,
     html_attr_pending |-> None,
     comment_counter |-> 0,
     latex_macros_preamble |-> <<>>,
     results_mode |-> "none",
     results_lines |-> <<>>,
     noexport_active |-> FALSE,
     noexport_level |-> 0,
     noexport_anchor |-> None,
     noexport_title |-> S_noexport,
     noexport_lines |-> <<>>,
     noexport_counter |-> 0,
     names_seen |-> <<>>,    \* history: the anchors the name events have set
     pre_depth |-> 0,        \* history: depth of block_stack when inside_pre was set
     buffered_macros |-> <<>>]    \* history: the preamble as each buffered line was read

Out(r, element) == [r EXCEPT !.html_out = Append(@, element)]

\* render_inline_tokens(tokens).strip() == "": only blank plaintext
RendersBlank(tokens) ==
    \A i \in 1..Len(tokens) : tokens[i].type = "plaintext" /\ Strip(tokens[i].text) = <<>>

\* flush_paragraph(paragraph_buffer, out, preamble_macros=...)
flush_paragraph(r, preamble_macros) ==
    LET kept == FilterSeq(LAMBDA toks : ~RendersBlank(toks), r.paragraph_buffer)
        cleared == [r EXCEPT !.paragraph_buffer = <<>>]
    IN  IF r.paragraph_buffer = <<>> THEN r
        ELSE IF kept = <<>> THEN cleared
        ELSE Out(cleared, El("p", None, [lines |-> kept, macros |-> preamble_macros]))

flush_paragraph_here(r) == flush_paragraph(r, r.latex_macros_preamble)

open_ul_if_needed(r) ==
    IF ~r.inside_ul THEN [Out(r, El("ul", None, <<>>)) EXCEPT !.inside_ul = TRUE] ELSE r

close_ul_if_needed(r) ==
    IF r.inside_ul THEN [Out(r, El("/ul", None, <<>>)) EXCEPT !.inside_ul = FALSE] ELSE r

open_ol_if_needed(r) ==
    IF ~r.inside_ol THEN [Out(r, El("ol", None, <<>>)) EXCEPT !.inside_ol = TRUE] ELSE r

close_ol_if_needed(r) ==
    IF r.inside_ol THEN [Out(r, El("/ol", None, <<>>)) EXCEPT !.inside_ol = FALSE] ELSE r

\* build_pre_attributes: the id is the anchor of the opening event
EventAnchor(ev) == IF "anchor" \in DOMAIN ev THEN ev.anchor ELSE None

flush_pre_if_needed(r) ==
    LET closed == close_ol_if_needed(close_ul_if_needed(r))
        id == IF r.pre_open_event # None THEN EventAnchor(r.pre_open_event[1]) ELSE None
    IN  IF ~r.inside_pre THEN r
        ELSE [Out(closed, El("pre", id, [lines |-> r.pre_lines, open |-> r.pre_open_event]))
                 EXCEPT !.pre_lines = <<>>, !.inside_pre = FALSE, !.pre_open_event = None]

\* a results flush that keeps the lines it has put out
flush_results_block_KeepsLines(r) ==
    LET closed == close_ol_if_needed(close_ul_if_needed(flush_paragraph(r, <<>>)))
    IN  IF r.results_lines = <<>> THEN [r EXCEPT !.results_mode = "none"]
        ELSE [Out(closed, El("pre_result", None, [lines |-> r.results_lines]))
                 EXCEPT !.results_mode = "none"]

\* lines 710-731
flush_results_block(r) ==
    LET closed == close_ol_if_needed(close_ul_if_needed(flush_paragraph(r, <<>>)))
    IN  IF r.results_lines = <<>> THEN [r EXCEPT !.results_mode = "none"]
        ELSE [Out(closed, El("pre_result", None, [lines |-> r.results_lines]))
                 EXCEPT !.results_lines = <<>>, !.results_mode = "none"]

\* ast.parse on a right-hand side that is one number or one $N reference
ast_parse_atom(text) ==
    IF text # <<>> /\ \A i \in 1..Len(text) : text[i] \in DigitCh
    THEN Const(Fin(IntOf(text), 1))
    ELSE IF Len(text) >= 2 /\ text[1] = "$" /\ \A i \in 2..Len(text) : text[i] \in DigitCh
    THEN ColRef(IntOf(Tail(text)))
    ELSE Unparsable

\* lines 305-311 of _parse_tblfm_assignments on the text of one formula
FormulaOfText(raw) ==
    LET core == Strip(Split(raw, <<";">>)[1])
        eq == Contains(core, "=")
        i == Find(core, <<"=">>)
        rhs == Strip(Drop(core, i))
    IN  [lhs |-> IF eq THEN Strip(Take(core, i - 1)) ELSE core,
         eq |-> eq,
         rhs |-> IF ~eq \/ rhs = <<>> THEN None ELSE Some(ast_parse_atom(rhs))]

\* truthiness of an optional list or dict
Truthy(x) == x # None /\ x[1] # <<>>

ResetTable(r) ==
    [r EXCEPT !.table_collecting = FALSE, !.table_buffer = <<>>, !.table_tblfm = <<>>,
              !.table_anchor = None, !.table_caption = None]

\* lines 810-841: a table with a caption is wrapped in a figure that takes the id
TableElements(r, t) ==
    LET body == [rows |-> t.table_rows,
                 first_hline |-> FirstHline(t.table_rows),
                 macros |-> r.latex_macros_preamble]
    IN  IF Truthy(r.table_caption)
        THEN Out(Out(r, El("figure", r.table_anchor, [caption |-> r.table_caption])),
                 El("table", None, body))
        ELSE Out(r, El("table", r.table_anchor, body))

\* lines 784-848: t is the outcome of _apply_column_formulas_to_table, whose
\* exception leaves render_org_to_html_body
render_table(r, t) ==
    IF t.pc = "raised" THEN [r EXCEPT !.pc = "raised"]
    ELSE ResetTable(TableElements(r, t))

\* flush_table_if_needed: the formulas are applied first
flush_table_if_needed(r) ==
    IF ~r.table_collecting \/ r.table_buffer = <<>> THEN ResetTable(r)
    ELSE render_table(r, apply_column_formulas_to_table(
                             r.table_buffer, MapSeq(FormulaOfText, r.table_tblfm)))

\* build_verse_attributes: the id is the stripped anchor of the opening event
VerseId(open_event) ==
    IF open_event # None /\ EventAnchor(open_event[1]) # None
          /\ Strip(EventAnchor(open_event[1])[1]) # <<>>
    THEN Some(Strip(EventAnchor(open_event[1])[1]))
    ELSE None

flush_verse_if_needed(r) ==
    LET closed == flush_table_if_needed(flush_pre_if_needed(
                      close_ol_if_needed(close_ul_if_needed(flush_paragraph_here(r)))))
    IN  IF ~r.inside_verse THEN r
        ELSE [Out(closed, El("verse", VerseId(r.verse_open_event),
                             [lines |-> r.verse_lines, macros |-> r.latex_macros_preamble]))
                 EXCEPT !.inside_verse = FALSE, !.verse_lines = <<>>,
                        !.verse_open_event = None]

open_container_block(r, name, anchor) ==
    LET closed == flush_table_if_needed(flush_pre_if_needed(
                      close_ol_if_needed(close_ul_if_needed(flush_paragraph_here(r)))))
    IN  [Out(closed, El("div", anchor, [name |-> name]))
            EXCEPT !.inside_container = TRUE, !.container_name = Some(name),
                   !.container_anchor = anchor]

close_container_block(r) ==
    LET closed == flush_table_if_needed(flush_pre_if_needed(
                      close_ol_if_needed(close_ul_if_needed(flush_paragraph_here(r)))))
    IN  [Out(closed, El("/div", None, <<>>))
            EXCEPT !.inside_container = FALSE, !.container_name = None,
                   !.container_anchor = None]

close_table_if_needed(r) ==
    IF r.inside_table THEN [Out(r, El("/table", None, <<>>)) EXCEPT !.inside_table = FALSE]
    ELSE r

\* render_hidden_comment_block: the wrapper carries the anchor as its id
HiddenBlock(box, number, anchor, lines, macros, label) ==
    El("hidden", anchor,
       [box |-> box, number |-> number, lines |-> lines, macros |-> macros,
        label |-> label])

flush_noexport_block(r) ==
    LET closed == flush_table_if_needed(flush_pre_if_needed(
                      close_ol_if_needed(close_ul_if_needed(flush_paragraph(
                          flush_verse_if_needed(flush_results_block(r)), <<>>)))))
        number == r.noexport_counter + 1
    IN  IF ~r.noexport_active THEN r
        ELSE [Out(closed, HiddenBlock("noexport", number, r.noexport_anchor,
                                      r.noexport_lines, r.latex_macros_preamble,
                                      r.noexport_title))
                 EXCEPT !.noexport_counter = number,
                        !.noexport_active = FALSE,
                        !.noexport_level = 0,
                        !.noexport_anchor = None,
                        !.noexport_title = S_noexport,
                        !.noexport_lines = <<>>]

\* str.lstrip("*")
HeadingText(l) == Strip(LStripCh(l, "*"))

\* render_heading
Heading(l, ev, anchor, macros) ==
    El("h", anchor, [level |-> ev.level, tags |-> ev.tags, line |-> l, macros |-> macros])

\* is_org_directive_line
is_org_directive_line(l) == StartsWith(LStrip(l), <<"#", "+">>)

ImageExtensions ==
    {<<".", "p", "n", "g">>, <<".", "j", "p", "g">>, <<".", "j", "p", "e", "g">>,
     <<".", "g", "i", "f">>, <<".", "s", "v", "g">>, <<".", "w", "e", "b", "p">>,
     <<".", "b", "m", "p">>}

\* is_image_target
is_image_target(url) ==
    LET base == LowerStr(Split(Split(url, <<"?">>)[1], <<"#">>)[1])
    IN  \E ext \in ImageExtensions : EndsWith(base, ext)

\* unpack_link_token_value(...)[0]
LinkUrl(token_text) ==
    IF Contains(token_text, NULL_SEP)
    THEN Strip(Take(token_text, Find(token_text, <<NULL_SEP>>) - 1))
    ELSE Strip(token_text)

is_single_image_line(tokens) ==
    /\ Len(tokens) = 1
    /\ tokens[1].type = "link"
    /\ is_image_target(LinkUrl(tokens[1].text))

\* lines 1187-1219: the scan of the events of one line.  c carries the
\* renderer locals r and the per-line locals filtered_events, tblfm_here and
\* current_line_tokens
ScanEvent(c, ev, st) ==
    CASE ev.type = "line_tokens" -> [c EXCEPT !.current_line_tokens = ev.tokens]
      [] ev.type = "name" ->
            IF Strip(ev.name) # <<>>
            THEN [c EXCEPT !.r.anchor_pending = Some(Strip(ev.name)),
                           !.r.names_seen = Append(@, Strip(ev.name))]
            ELSE c
      [] ev.type = "caption" -> [c EXCEPT !.r.caption_pending_tokens = Some(ev.tokens)]
      [] ev.type = "attr_html" -> [c EXCEPT !.r.html_attr_pending = Some(ev.attrs)]
      [] ev.type \in {"table_row", "table_hline"} ->
            [c EXCEPT !.filtered_events = Append(@, ev)]
      [] ev.type = "tblfm" ->
            [c EXCEPT !.tblfm_here =
                          @ \o FilterSeq(LAMBDA p : Strip(p) # <<>>, ev.formulas)]
      [] ev.type = "latex_macro" ->
            IF ev.added
            THEN [c EXCEPT !.r.latex_macros_preamble =
                               JoinSep(st.latex_macro_lines, <<"\n">>)]
            ELSE c
      [] OTHER -> [c EXCEPT !.filtered_events = Append(@, ev)]

RECURSIVE ScanEvents(_, _, _)
ScanEvents(c, evs, st) ==
    IF evs = <<>> THEN c ELSE ScanEvents(ScanEvent(c, Head(evs), st), Tail(evs), st)

TableRowOf(ev) == IF ev.type = "table_hline" THEN HLine ELSE Row(ev.cells)

\* lines 1228-1251: a table line outside a pre block
CollectTableLine(r, table_events) ==
    LET started ==
            IF r.table_collecting THEN r
            ELSE [flush_pre_if_needed(close_ol_if_needed(close_ul_if_needed(
                      flush_paragraph_here(r))))
                     EXCEPT !.table_collecting = TRUE,
                            !.table_anchor = r.anchor_pending,
                            !.table_caption = r.caption_pending_tokens,
                            !.anchor_pending = None,
                            !.caption_pending_tokens = None,
                            !.html_attr_pending = None]
    IN  [started EXCEPT !.table_buffer = @ \o MapSeq(TableRowOf, table_events)]

HasEventOfType(evs, types) == \E i \in 1..Len(evs) : evs[i].type \in types

FirstOfType(evs, type) == evs[CHOOSE i \in 1..Len(evs) :
                                 evs[i].type = type /\ \A j \in 1..(i - 1) : evs[j].type # type]

\* lines 1276-1305: a heading tagged noexport starts the capture
IsNoexportHeading(ev) ==
    ev.tags # None /\ \E i \in 1..Len(ev.tags[1]) : LowerStr(ev.tags[1][i]) = S_noexport

\* str.rsplit(" :", 1)[0].rstrip() when " :" occurs in the text
RECURSIVE RFind(_, _, _)
RFind(s, p, i) ==
    IF i < 1 THEN 0
    ELSE IF SubSeq(s, i, i + Len(p) - 1) = p THEN i
    ELSE RFind(s, p, i - 1)

BeforeLastTagMark(text) ==
    LET i == RFind(text, <<" ", ":">>, Len(text) - 1)
    IN  IF i = 0 THEN text ELSE RStrip(Take(text, i - 1))

StartNoexport(r, l, ev) ==
    LET heading_text == BeforeLastTagMark(HeadingText(l))
        anchor_for_section == OrElse(ev.anchor, r.anchor_pending)
        has_anchor == anchor_for_section # None /\ Strip(anchor_for_section[1]) # <<>>
    IN  [r EXCEPT !.noexport_anchor =
                      IF has_anchor THEN Some(Strip(anchor_for_section[1])) ELSE None,
                  !.anchor_pending = IF has_anchor THEN None ELSE @,
                  !.noexport_active = TRUE,
                  !.noexport_level = ev.level,
                  !.noexport_title = IF heading_text # <<>> THEN heading_text ELSE S_noexport,
                  !.noexport_lines = <<>>,
                  !.caption_pending_tokens = None,
                  !.html_attr_pending = None]

StandAlone(r) ==
    flush_table_if_needed(flush_pre_if_needed(
        close_ol_if_needed(close_ul_if_needed(flush_paragraph_here(r)))))

WithField(ev, name, value) == (name :> value) @@ ev

open_table_if_needed(r) ==
    IF r.inside_table THEN r
    ELSE [Out(flush_pre_if_needed(close_ol_if_needed(close_ul_if_needed(
                  flush_paragraph_here(r)))), El("table_open", None, <<>>))
             EXCEPT !.inside_table = TRUE]

\* lines 1407-1461: a block_begin event
HandleBlockBegin(r, ev) ==
    LET awaiting == r.results_mode = "awaiting"
        marked == IF awaiting /\ ev.verbatim /\ ev.name = S_example
                  THEN WithField(ev, "is_result", TRUE) ELSE ev
        r0 == IF awaiting THEN [r EXCEPT !.results_mode = "none"] ELSE r
        attach == ev.anchor = None /\ r0.anchor_pending # None
        anchor == OrElse(ev.anchor, r0.anchor_pending)
    IN  IF ev.name = S_verse
        THEN [StandAlone(r0)
                 EXCEPT !.anchor_pending = IF attach THEN None ELSE @,
                        !.html_attr_pending = None,
                        !.caption_pending_tokens = None,
                        !.inside_verse = TRUE,
                        !.verse_open_event =
                            Some(IF attach THEN [marked EXCEPT !.anchor = r0.anchor_pending]
                                 ELSE marked),
                        !.verse_lines = <<>>]
        ELSE IF ~ev.verbatim
        THEN [open_container_block(r0, ev.name, anchor)
                 EXCEPT !.anchor_pending = IF anchor # None THEN None ELSE @,
                        !.html_attr_pending = None]
        ELSE [flush_table_if_needed(close_ol_if_needed(close_ul_if_needed(
                  flush_paragraph_here(r0))))
                 EXCEPT !.html_attr_pending = None,
                        !.inside_pre = TRUE,
                        !.pre_open_event = Some(marked),
                        !.pre_lines = <<>>,
                        !.anchor_pending = IF ev.anchor # None THEN None ELSE @]

\* lines 1467-1482: a block_end event
HandleBlockEnd(r, ev) ==
    LET verbatim == "verbatim" \in DOMAIN ev /\ ev.verbatim
    IN  IF ev.name = S_verse THEN flush_verse_if_needed(r)
        ELSE IF r.inside_container /\ r.container_name = Some(ev.name) /\ ~verbatim
        THEN close_container_block(r)
        ELSE flush_pre_if_needed(r)

\* lines 1514-1546: a comment or comment_block event
HandleComment(r, ev) ==
    LET closed == StandAlone(r)
        lines == IF ev.type = "comment" THEN <<ev.text>> ELSE ev.lines
        number == r.comment_counter + 1
    IN  [Out(closed, HiddenBlock("comment", number, ev.anchor, lines,
                                 r.latex_macros_preamble, <<>>))
            EXCEPT !.comment_counter = number]

\* lines 1374-1546: one pass of the event loop; every branch the model has
\* sets line_consumed
HandleEvent(r, ev, l) ==
    CASE ev.type = "heading" ->
            LET closed == close_table_if_needed(flush_pre_if_needed(close_ol_if_needed(
                              close_ul_if_needed(flush_paragraph_here(r)))))
                anchor_for_heading == OrElse(ev.anchor, r.anchor_pending)
            IN  [Out(closed, Heading(l, ev, anchor_for_heading, r.latex_macros_preamble))
                    EXCEPT !.html_attr_pending = None,
                           !.anchor_pending =
                               IF anchor_for_heading # None THEN None ELSE @]
      [] ev.type = "src_begin" ->
            [flush_table_if_needed(close_ol_if_needed(close_ul_if_needed(
                 flush_paragraph_here(r))))
                EXCEPT !.results_mode = IF @ = "awaiting" THEN "none" ELSE @,
                       !.html_attr_pending = None,
                       !.inside_pre = TRUE,
                       !.pre_open_event = Some(ev),
                       !.pre_lines = <<>>]
      [] ev.type = "block_begin" -> HandleBlockBegin(r, ev)
      [] ev.type = "src_end" -> flush_pre_if_needed(r)
      [] ev.type = "block_end" -> HandleBlockEnd(r, ev)
      [] ev.type = "list_item" ->
            Out([open_ul_if_needed(close_ol_if_needed(flush_paragraph_here(r)))
                    EXCEPT !.html_attr_pending = None],
                El("li", None, [text |-> ev.text, macros |-> r.latex_macros_preamble]))
      [] ev.type = "ordered_list_item" ->
            Out([open_ol_if_needed(close_ul_if_needed(flush_paragraph_here(r)))
                    EXCEPT !.html_attr_pending = None],
                El("li", None, [text |-> ev.text, macros |-> <<>>]))
      [] ev.type = "table_row" ->
            Out(open_table_if_needed(r), El("tr", None, [cells |-> ev.cells]))
      [] ev.type = "table_hline" -> open_table_if_needed(r)
      [] ev.type \in {"comment", "comment_block"} -> HandleComment(r, ev)
      [] OTHER -> r

ConsumesLine(ev) ==
    ev.type \in {"heading", "src_begin", "block_begin", "src_end", "block_end",
                 "list_item", "ordered_list_item", "table_row", "table_hline",
                 "comment", "comment_block"}

RECURSIVE HandleEvents(_, _, _)
HandleEvents(r, evs, l) ==
    IF evs = <<>> THEN r ELSE HandleEvents(HandleEvent(r, Head(evs), l), Tail(evs), l)

IsTableEvent(ev) == ev.type \in {"table_row", "table_hline"}

IsVerseEnd(ev) == ev.type = "block_end" /\ ev.name = S_verse

\* lines 1549-1582: r is the state after the event loop
RenderAfterEvents(r, filtered_events, current_line_tokens, l) ==
    IF (\E i \in 1..Len(filtered_events) : ConsumesLine(filtered_events[i]))
           \/ is_org_directive_line(l)
    THEN r
    ELSE IF /\ r.anchor_pending # None \/ Truthy(r.caption_pending_tokens)
                   \/ Truthy(r.html_attr_pending)
            /\ is_single_image_line(current_line_tokens)
    THEN [Out(close_ol_if_needed(close_ul_if_needed(flush_paragraph_here(r))),
              El("figure", r.anchor_pending,
                 [tokens |-> current_line_tokens,
                  caption |-> r.caption_pending_tokens,
                  attrs |-> r.html_attr_pending]))
             EXCEPT !.anchor_pending = None,
                    !.caption_pending_tokens = None,
                    !.html_attr_pending = None]
    ELSE IF Strip(l) = <<>> THEN flush_paragraph_here(close_table_if_needed(r))
    ELSE [r EXCEPT !.paragraph_buffer = Append(@, current_line_tokens)]

\* lines 1320-1546: r is the state after the results block has been flushed
RenderAfterResults(r, filtered_events, current_line_tokens, l) ==
    LET has_block_begin == HasEventOfType(filtered_events, {"block_begin", "src_begin"})
    IN  IF r.inside_verse
        THEN (IF \E i \in 1..Len(filtered_events) : IsVerseEnd(filtered_events[i])
              THEN flush_verse_if_needed(r)
              ELSE [r EXCEPT !.verse_lines = Append(@, l)])
        ELSE IF r.inside_pre
        THEN (IF HasEventOfType(filtered_events, {"block_end", "src_end"})
              THEN flush_pre_if_needed(r)
              ELSE [r EXCEPT !.pre_lines = Append(@, l)])
        ELSE IF r.results_mode = "awaiting" /\ ~has_block_begin /\ Strip(l) # <<>>
        THEN [r EXCEPT !.results_mode = "collecting", !.results_lines = Append(@, l)]
        ELSE RenderAfterEvents(
                 HandleEvents(IF r.results_mode = "awaiting" /\ ~has_block_begin
                              THEN [r EXCEPT !.results_mode = "none"] ELSE r,
                              filtered_events, l),
                 filtered_events, current_line_tokens, l)

\* lines 1276-1317: r is the state after a noexport section has been closed
RenderAfterNoexport(r, filtered_events, current_line_tokens, l) ==
    IF /\ HasEventOfType(filtered_events, {"heading"})
       /\ IsNoexportHeading(FirstOfType(filtered_events, "heading"))
    THEN StartNoexport(r, l, FirstOfType(filtered_events, "heading"))
    ELSE IF r.results_mode = "collecting" /\ Strip(l) # <<>>
    THEN [r EXCEPT !.results_lines = Append(@, l)]
    ELSE RenderAfterResults(
             IF r.results_mode = "collecting" THEN flush_results_block(r) ELSE r,
             filtered_events, current_line_tokens, l)

\* lines 1258-1273: r is the state after a table that ended has been flushed
RenderAfterTable(r, filtered_events, current_line_tokens, l) ==
    LET ends_noexport ==
            /\ r.noexport_active
            /\ HasEventOfType(filtered_events, {"heading"})
            /\ FirstOfType(filtered_events, "heading").level <= r.noexport_level
    IN  IF r.noexport_active /\ ~ends_noexport
        THEN [r EXCEPT !.noexport_lines = Append(@, l)]
        ELSE RenderAfterNoexport(IF ends_noexport THEN flush_noexport_block(r) ELSE r,
                                 filtered_events, current_line_tokens, l)

\* lines 1221-1256: c is the outcome of the scan of the line's events
RenderScanned(c, table_events, l) ==
    IF c.tblfm_here # <<>> /\ c.r.table_collecting
    THEN [c.r EXCEPT !.table_tblfm = @ \o c.tblfm_here]
    ELSE IF table_events # <<>> /\ ~c.r.inside_pre
    THEN CollectTableLine(c.r, table_events)
    ELSE RenderAfterTable(IF c.r.table_collecting /\ table_events = <<>>
                          THEN flush_table_if_needed(c.r) ELSE c.r,
                          c.filtered_events, c.current_line_tokens, l)

RenderEvents(c, l) == RenderScanned(c, FilterSeq(IsTableEvent, c.filtered_events), l)

\* the body of the main loop without its test for drawer lines
render_line_DrawersRendered(r, l, st, evs) ==
    IF StartsWith(LStrip(l), S_RESULTS)
    THEN [(IF r.results_mode = "collecting" THEN flush_results_block(r) ELSE r)
             EXCEPT !.results_mode = "awaiting", !.results_lines = <<>>]
    ELSE RenderEvents(ScanEvents([r |-> r, filtered_events |-> <<>>, tblfm_here |-> <<>>,
                                  current_line_tokens |->
                                      <<[type |-> "plaintext", text |-> l]>>],
                                 evs, st),
                      l)

\* lines 1159-1582: the body of the main loop for one line, after
\* parse_org_line has returned the state st and the events evs
render_line(r, l, st, evs) ==
    IF st.is_inside_drawer \/ HasEventOfType(evs, {"drawer"}) THEN r
    ELSE IF StartsWith(LStrip(l), S_RESULTS)
    THEN [(IF r.results_mode = "collecting" THEN flush_results_block(r) ELSE r)
             EXCEPT !.results_mode = "awaiting", !.results_lines = <<>>]
    ELSE RenderEvents(ScanEvents([r |-> r, filtered_events |-> <<>>, tblfm_here |-> <<>>,
                                  current_line_tokens |->
                                      <<[type |-> "plaintext", text |-> l]>>],
                                 evs, st),
                      l)

\* lines 1585-1592: the flushes after the last line
final_flushes(r) ==
    flush_noexport_block(flush_table_if_needed(close_ol_if_needed(close_ul_if_needed(
        flush_pre_if_needed(flush_paragraph_here(flush_verse_if_needed(
            flush_results_block(r))))))))

(***************************************************************************)
(* The rendering pass: each line is parsed and then rendered; the final    *)
(* flushes run when the input ends                                         *)
(***************************************************************************)
RenderLines ==
    {L_text, L_name, L_heading, L_comment, L_begin_src, L_end_src, L_row, L_begin_center}

MaxRenderLines == 4    \* lines read by one pass of SpecRender

InitRender == ParserInit /\ tf = TfIdle /\ rs = RenderInit /\ OthersIdle

\* an exception leaves render_org_to_html_body: no output is returned
RaisedOr(r, otherwise) == IF r.pc = "raised" THEN [rs EXCEPT !.pc = "raised"] ELSE otherwise

LineRendered(r) == RaisedOr(r, r)

\* the history of the pass after a line has taken the locals to r and the
\* parser state to st
Tracked(r, st) ==
    [r EXCEPT !.pre_depth = IF r.inside_pre /\ ~rs.inside_pre THEN Len(st.block_stack) ELSE @,
              !.buffered_macros =
                  IF r.paragraph_buffer = <<>> THEN <<>>
                  ELSE IF Len(r.paragraph_buffer) = Len(rs.paragraph_buffer) THEN @
                  ELSE IF Len(r.paragraph_buffer) = Len(rs.paragraph_buffer) + 1
                  THEN Append(@, r.latex_macros_preamble)
                  ELSE <<r.latex_macros_preamble>>]

RenderParsed(l, parsed) ==
    /\ Parsed(l, parsed)
    /\ rs' = LineRendered(Tracked(render_line(rs, l, parsed.state, parsed.events),
                                  parsed.state))
    /\ UNCHANGED <<tf, tk, rd, mc>>

RenderLine(l) == rs.pc = "loop" /\ RenderParsed(l, parse_org_line(l, state))

Finished(r) == RaisedOr(r, [r EXCEPT !.pc = "done"])

RenderFinish ==
    /\ rs.pc = "loop"
    /\ rs' = Finished(final_flushes(rs))
    /\ UNCHANGED <<state, events, line, nlines, open, wellnested, tf, tk, rd, mc>>

NextRender ==
    \/ \E l \in RenderLines : nlines < MaxRenderLines /\ RenderLine(l)
    \/ RenderFinish

SpecRender == InitRender /\ [][NextRender]_vars

(***************************************************************************)
(* The rendering pass over the lines that switch the renderer between its  *)
(* capture modes: src and verse blocks, containers, #+RESULTS, noexport    *)
(* sections, tables and #+LATEX macros                                     *)
(***************************************************************************)
ModeLines ==
    {L_begin_src, L_end_src, L_begin_center, L_end_center, L_begin_verse, L_end_verse,
     L_results, L_blank, L_math, L_latex, L_noexport, L_heading, L_row}

MaxModeLines == 4    \* lines read by one pass of SpecModes

NextModes ==
    \/ \E l \in ModeLines : nlines < MaxModeLines /\ RenderLine(l)
    \/ RenderFinish

SpecModes == InitRender /\ [][NextModes]_vars

(***************************************************************************)
(* The rendering pass over the lines that fill and flush the buffers of    *)
(* the renderer: paragraph, pre, verse, table, results and noexport        *)
(***************************************************************************)
FlushLines ==
    {L_math, L_begin_src, L_end_src, L_begin_verse, L_results, L_blank, L_noexport,
     L_heading, L_row}

MaxFlushLines == 4    \* lines read by one pass of SpecFlush

NextFlush ==
    \/ \E l \in FlushLines : nlines < MaxFlushLines /\ RenderLine(l)
    \/ RenderFinish

SpecFlush == InitRender /\ [][NextFlush]_vars

(***************************************************************************)
(* The rendering pass over #+LATEX lines and lines with math               *)
(***************************************************************************)
MacroLines ==
    {L_math, L_latex, L_latex_b, L_latex_plain, L_olmath, L_ul, L_heading, L_blank,
     L_results}

MaxMacroLines == 4    \* lines read by one pass of SpecMacros

NextMacros ==
    \/ \E l \in MacroLines : nlines < MaxMacroLines /\ RenderLine(l)
    \/ RenderFinish

SpecMacros == InitRender /\ [][NextMacros]_vars

(***************************************************************************)
(* The rendering pass over drawers, comments and image lines               *)
(***************************************************************************)
DrawerLines ==
    {L_text, L_heading, L_drawer, L_drawer_end, L_comment, L_begin_comment,
     L_end_comment, L_name, L_image, L_row, L_begin_src, L_end_src}

MaxDrawerLines == 4    \* lines read by one pass of SpecDrawers

NextDrawers ==
    \/ \E l \in DrawerLines : nlines < MaxDrawerLines /\ RenderLine(l)
    \/ RenderFinish

SpecDrawers == InitRender /\ [][NextDrawers]_vars

(***************************************************************************)
(* The include resolver: read_with_includes (org_reader.py).  The files    *)
(* are a function from paths to their lines; each active call of the       *)
(* generator is a frame of rd.stack with its own position, preamble flag   *)
(* and OrgState; rd.out holds the lines yielded to the consumer.           *)
(***************************************************************************)
S_include == <<"#", "+", "i", "n", "c", "l", "u", "d", "e">>

\* ^\s*#\+include\b, ignoring case
include_keyword_re(l) ==
    LET s == LStrip(l)
    IN  /\ Len(s) >= Len(S_include)
        /\ LowerStr(Take(s, Len(S_include))) = S_include
        /\ (Len(s) = Len(S_include) \/ s[Len(S_include) + 1] \notin WordCh)

is_include(l) == include_keyword_re(l)

skip_header_keys ==
    {<<"t", "i", "t", "l", "e">>, <<"a", "u", "t", "h", "o", "r">>, <<"d", "a", "t", "e">>,
     <<"o", "p", "t", "i", "o", "n", "s">>}

should_skip_header_line(l) ==
    header_kv_re(l) # None /\ LowerStr(header_kv_re(l)[1].g1) \in skip_header_keys

\* a decision that takes every #+KEY: line for a line of the preamble
preamble_decision_AnyHeader(l) ==
    IF Strip(l) = <<>> \/ header_kv_re(l) # None
    THEN [skip |-> TRUE, in_preamble |-> TRUE]
    ELSE [skip |-> FALSE, in_preamble |-> FALSE]

\* (skip, in_preamble)
preamble_decision(l) ==
    IF Strip(l) = <<>> THEN [skip |-> TRUE, in_preamble |-> TRUE]
    ELSE IF should_skip_header_line(l) THEN [skip |-> TRUE, in_preamble |-> TRUE]
    ELSE [skip |-> FALSE, in_preamble |-> FALSE]

QuoteCh == {"\"", "'"}

un_quote_string(string) ==
    IF string # <<>> /\ Head(string) \in QuoteCh /\ string[Len(string)] = Head(string)
    THEN Strip(SubSeq(string, 2, Len(string) - 1))
    ELSE string

\* line.split(maxsplit=1)[1]: what follows the first word, None when the
\* line is one word (an IndexError)
AfterFirstWord(l) ==
    LET t == LStrip(l)
        n == SpanLen(t, {t[i] : i \in 1..Len(t)} \ SpaceCh)
        rest == LStrip(Drop(t, n))
    IN  IF rest = <<>> THEN None ELSE Some(rest)

\* the files are in one directory: the resolved path is the name the
\* directive gives; None when the directive gives none
resolve_include(l) ==
    IF AfterFirstWord(l) = None THEN None
    ELSE Some(un_quote_string(Strip(LStripCh(AfterFirstWord(l)[1], ":"))))

\* a call of read_with_includes that has read pos lines of its file
Frame(path, is_root) ==
    [path |-> path, pos |-> 0, in_preamble |-> ~is_root, state |-> OrgState]

ReaderStart(files, root) ==
    [pc |-> IF root \in DOMAIN files THEN "reading" ELSE "raised",
     files |-> files,
     stack |-> IF root \in DOMAIN files THEN <<Frame(root, TRUE)>> ELSE <<>>,
     out |-> <<>>,
     origin |-> <<>>,     \* history: the file and the line number of each line of out
     dropped |-> <<>>,    \* history: the (depth, path, line number) of the lines skipped
     literal |-> {}]      \* history: the places in out of the include directives
                          \* yielded from inside a verbatim block

TopFrame(r) == r.stack[Len(r.stack)]

NextLineOf(r) == r.files[TopFrame(r).path][TopFrame(r).pos + 1]

WithTop(r, f) == [r EXCEPT !.stack[Len(r.stack)] = f]

InsideContainer(st) == st.is_inside_block \/ st.is_inside_drawer \/ st.is_inside_comment

\* the interpreter refuses calls nested deeper than its recursion limit
RecursionLimit == 4

\* an expansion that also yields the directive line
ReaderExpand_YieldsDirective(r, l) ==
    IF resolve_include(l) = None \/ resolve_include(l)[1] \notin DOMAIN r.files
          \/ Len(r.stack) >= RecursionLimit
    THEN [r EXCEPT !.pc = "raised"]
    ELSE [r EXCEPT !.stack = Append(@, Frame(resolve_include(l)[1], FALSE)),
                   !.out = Append(@, l),
                   !.origin = Append(@, <<TopFrame(r).path, TopFrame(r).pos>>)]

\* lines 179-184: the nested call; resolve_include, the open of the file and
\* the call itself can raise
ReaderExpand(r, l) ==
    IF resolve_include(l) = None \/ resolve_include(l)[1] \notin DOMAIN r.files
          \/ Len(r.stack) >= RecursionLimit
    THEN [r EXCEPT !.pc = "raised"]
    ELSE [r EXCEPT !.stack = Append(@, Frame(resolve_include(l)[1], FALSE))]

\* lines 186: the line is yielded
ReaderYield(r, l) ==
    [r EXCEPT !.out = Append(@, l),
              !.origin = Append(@, <<TopFrame(r).path, TopFrame(r).pos>>),
              !.literal = IF is_include(l) /\ TopFrame(r).state.is_inside_verbatim_block
                          THEN @ \cup {Len(r.out) + 1} ELSE @]

\* lines 169-186: r has the frame advanced past the line l, st is the state
\* parse_org_line has returned for it
ReaderAfterParse(r, l, st) ==
    IF is_include(l) /\ ~InsideContainer(st)
    THEN ReaderExpand(WithTop(r, [TopFrame(r) EXCEPT !.state = st]), l)
    ELSE ReaderYield(WithTop(r, [TopFrame(r) EXCEPT !.state = st]), l)

\* lines 164-170: d is the decision of preamble_decision for a frame in its
\* preamble
ReaderAfterDecision(r, f, l, d) ==
    IF d.skip
    THEN [WithTop(r, [f EXCEPT !.pos = @ + 1, !.in_preamble = d.in_preamble])
             EXCEPT !.dropped = Append(@, <<Len(r.stack), f.path, f.pos + 1>>)]
    ELSE ReaderAfterParse(WithTop(r, [f EXCEPT !.pos = @ + 1, !.in_preamble = d.in_preamble]),
                          l, parse_org_line(l, f.state).state)

\* lines 161-186: one iteration of "for raw_line in f" in the innermost call
read_line(r) ==
    ReaderAfterDecision(r, TopFrame(r), NextLineOf(r),
                        IF TopFrame(r).in_preamble THEN preamble_decision(NextLineOf(r))
                        ELSE [skip |-> FALSE, in_preamble |-> FALSE])

\* the innermost call has read its file: the generator ends and its caller,
\* if any, goes on
read_eof(r) ==
    [r EXCEPT !.stack = SubSeq(@, 1, Len(@) - 1),
              !.pc = IF Len(r.stack) = 1 THEN "done" ELSE @]

ReadLine ==
    /\ rd.pc = "reading"
    /\ TopFrame(rd).pos < Len(rd.files[TopFrame(rd).path])
    /\ rd' = read_line(rd)
    /\ UNCHANGED <<state, events, line, nlines, open, wellnested, tf, rs, tk, mc>>

ReadEof ==
    /\ rd.pc = "reading"
    /\ TopFrame(rd).pos = Len(rd.files[TopFrame(rd).path])
    /\ rd' = read_eof(rd)
    /\ UNCHANGED <<state, events, line, nlines, open, wellnested, tf, rs, tk, mc>>

P_main == <<"m">>
P_a == <<"a">>
P_b == <<"b">>

\* the lines of the files of SpecReader
\* the lines of the root file and of the included file a
ReaderLines == {L_text, L_blank, L_title, L_inc_a, L_inc_b, L_begin_src}
IncludedLines == {L_title, L_name, L_inc_a, L_inc_b}

MaxRootLines == 2    \* lines of the root file of SpecReader
MaxFileLines == 2    \* lines of the included file a of SpecReader

TextsUpTo(lines, n) == UNION {[1..k -> lines] : k \in 0..n}

\* the file b is a leaf with a preamble
File_b == <<L_title, L_blank, L_text, L_title>>

InitReader ==
    /\ ParserInit
    /\ tf = TfIdle /\ rs = RsIdle /\ tk = TkIdle /\ mc = McIdle
    /\ \E m \in TextsUpTo(ReaderLines, MaxRootLines), a \in TextsUpTo(IncludedLines, MaxFileLines) :
           rd = ReaderStart((P_main :> m) @@ (P_a :> a) @@ (P_b :> File_b), P_main)

NextReader == ReadLine \/ ReadEof

SpecReader == InitReader /\ [][NextReader]_vars

(***************************************************************************)
(* The include resolver and the renderer together: render_org_to_html_body *)
(* reads the lines read_with_includes yields.  The resolver does not look   *)
(* at the renderer, so its run is put before the rendering pass.           *)
(***************************************************************************)
IncludeLines == {L_text, L_begin_src, L_end_src, L_end_verse, L_inc_a, L_drawer}

MaxIncludeLines == 4    \* lines of the root file of SpecInclude

File_a == <<L_text>>

InitInclude ==
    /\ ParserInit
    /\ tf = TfIdle /\ rs = RenderInit /\ tk = TkIdle /\ mc = McIdle
    /\ \E m \in TextsUpTo(IncludeLines, MaxIncludeLines) :
           rd = ReaderStart((P_main :> m) @@ (P_a :> File_a), P_main)

\* line 1159: the main loop takes the next line the resolver has yielded
RenderYielded ==
    /\ rd.pc = "done"
    /\ nlines < Len(rd.out)
    /\ RenderLine(rd.out[nlines + 1])

\* lines 1585-1595: the resolver has no more lines
RenderEnd ==
    /\ rd.pc = "done"
    /\ nlines = Len(rd.out)
    /\ RenderFinish

NextInclude == ReadLine \/ ReadEof \/ RenderYielded \/ RenderEnd

SpecInclude == InitInclude /\ [][NextInclude]_vars

(***************************************************************************)
(* The math-image cache: math_image_url writes <digest>.tex into the       *)
(* cache directory and the route math_image loads it.  The requests of the *)
(* web application run in threads, so the steps of the calls interleave    *)
(* at their file operations.  All calls here have the same macro preamble  *)
(* and the same math source, which is one digest and one file.  The file   *)
(* is a string with its newlines, None while it does not exist.            *)
(***************************************************************************)
NL == "\n"
NulCh == "NUL"    \* a byte of the gap that a write behind the end of a file leaves
WsCh == SpaceCh \cup {NL}

\* str.strip() on a string with newlines
LStripWs(s) == Drop(s, SpanLen(s, WsCh))

RECURSIVE RStripWs(_)
RStripWs(s) == IF s # <<>> /\ s[Len(s)] \in WsCh THEN RStripWs(Take(s, Len(s) - 1)) ELSE s

StripWs(s) == RStripWs(LStripWs(s))

\* str.splitlines() for the separator "\n"
SplitLines(s) ==
    IF s = <<>> THEN <<>>
    ELSE IF s[Len(s)] = NL THEN Split(Take(s, Len(s) - 1), <<NL>>)
    ELSE Split(s, <<NL>>)

\* list.index(x): 0 stands for ValueError
RECURSIVE IndexFrom(_, _, _)
IndexFrom(lines, x, i) ==
    IF i > Len(lines) THEN 0
    ELSE IF lines[i] = x THEN i
    ELSE IndexFrom(lines, x, i + 1)

S_cache_v1 == <<"%", "%", " ", "o", "r", "g", "-", "m", "a", "t", "h", "-",
                "c", "a", "c", "h", "e", "-", "v", "1">>
S_macros_mark == <<"%", "%", " ", "m", "a", "c", "r", "o", "s">>
S_math_mark == <<"%", "%", " ", "m", "a", "t", "h">>

\* org_to_html.py 191, 198-204: the container that math_image_url writes
cache_content(preamble_macros, math_src) ==
    S_cache_v1 \o <<NL>> \o S_macros_mark \o <<NL>>
        \o StripWs(preamble_macros) \o <<NL>>
        \o S_math_mark \o <<NL>> \o math_src \o <<NL>>

Payload(macros, math_src) == [macros |-> macros, math |-> math_src]

\* webapp.py 154-162: the container format, with both marker lines found
LoadContainer(lines, i_macros, i_math) ==
    IF i_macros = 0 \/ i_math = 0
    THEN Payload(<<>>, StripWs(JoinSep(lines, <<NL>>)))
    ELSE Payload(StripWs(JoinSep(SubSeq(lines, i_macros + 1, i_math - 1), <<NL>>)),
                 StripWs(JoinSep(SubSeq(lines, i_math + 1, Len(lines)), <<NL>>)))

\* webapp.py 141-165; raw is the text of the file.  In the ValueError branch
\* raw.strip() is taken from the lines, which differ from raw by the last
\* newline only.
load_math_cache_payload(raw) ==
    IF StartsWith(raw, S_cache_v1)
    THEN LoadContainer(SplitLines(raw), IndexFrom(SplitLines(raw), S_macros_mark, 1),
                       IndexFrom(SplitLines(raw), S_math_mark, 1))
    ELSE Payload(<<>>, StripWs(raw))

MaxWriters == 2    \* concurrent calls of math_image_url

Writers == 1..MaxWriters

CacheStart(preamble_macros, math_src) ==
    [pc |-> "run",
     macros |-> preamble_macros,
     math |-> math_src,
     file |-> None,                                       \* <digest>.tex
     w |-> [i \in Writers |-> [pc |-> "exists", off |-> 0]],
     ld |-> "exists",                                     \* the call of math_image
     loaded |-> None]

Content(c) == cache_content(c.macros, c.math)

\* the bytes pos + 1 .. pos + Len(piece) of the file become the piece; a write
\* behind the end of the file leaves a gap
WriteAt(old, pos, piece) ==
    [i \in 1..(IF Len(old) > pos + Len(piece) THEN Len(old) ELSE pos + Len(piece)) |->
        IF i > pos /\ i <= pos + Len(piece) THEN piece[i - pos]
        ELSE IF i <= Len(old) THEN old[i]
        ELSE NulCh]

\* the ends of the pieces a writer at offset off can hand over next: the
\* buffered text is written out whole or in pieces that end with a line
PieceEnds(content, off) ==
    {i \in (off + 1)..Len(content) : content[i] = NL}

\* org_to_html.py 196: source_path.exists()
WriterExists(i) ==
    /\ mc.pc = "run"
    /\ mc.w[i].pc = "exists"
    /\ mc' = [mc EXCEPT !.w[i].pc = IF mc.file # None THEN "done" ELSE "open"]
    /\ UNCHANGED <<state, events, line, nlines, open, wellnested, tf, rs, tk, rd>>

\* org_to_html.py 207: write_text opens the file for writing, which creates
\* it or cuts it to length 0
WriterOpen(i) ==
    /\ mc.pc = "run"
    /\ mc.w[i].pc = "open"
    /\ mc' = [mc EXCEPT !.w[i].pc = "write", !.file = Some(<<>>)]
    /\ UNCHANGED <<state, events, line, nlines, open, wellnested, tf, rs, tk, rd>>

\* org_to_html.py 207: write_text writes the content at the offset of its
\* own file object and closes the file after the last piece
WriterWrite(i) ==
    /\ mc.pc = "run"
    /\ mc.w[i].pc = "write"
    /\ \E e \in PieceEnds(Content(mc), mc.w[i].off) :
          mc' = [mc EXCEPT
                    !.file = Some(WriteAt(mc.file[1], mc.w[i].off,
                                          SubSeq(Content(mc), mc.w[i].off + 1, e))),
                    !.w[i].off = e,
                    !.w[i].pc = IF e = Len(Content(mc)) THEN "done" ELSE "write"]
    /\ UNCHANGED <<state, events, line, nlines, open, wellnested, tf, rs, tk, rd>>

\* webapp.py 253-256: no SVG yet; 404 when the source file does not exist
LoaderExists ==
    /\ mc.pc = "run"
    /\ mc.ld = "exists"
    /\ mc' = [mc EXCEPT !.ld = IF mc.file # None THEN "read" ELSE "aborted"]
    /\ UNCHANGED <<state, events, line, nlines, open, wellnested, tf, rs, tk, rd>>

\* webapp.py 258: _load_math_cache_payload reads the file as it is now
LoaderRead ==
    /\ mc.pc = "run"
    /\ mc.ld = "read"
    /\ mc' = [mc EXCEPT !.ld = "loaded",
                        !.loaded = Some(load_math_cache_payload(mc.file[1]))]
    /\ UNCHANGED <<state, events, line, nlines, open, wellnested, tf, rs, tk, rd>>

MacroPreambles == {<<>>, <<"m">>, <<" ", "m", NL>>, <<"m", NL, "n">>}
MathSources == {<<"x">>, <<"x", " ">>, <<"x", NL, "y">>}

InitCache ==
    /\ ParserInit
    /\ tf = TfIdle /\ rs = RsIdle /\ tk = TkIdle /\ rd = RdIdle
    /\ \E m \in MacroPreambles, x \in MathSources : mc = CacheStart(m, x)

NextCache ==
    \/ \E i \in Writers : WriterExists(i)
    \/ \E i \in Writers : WriterOpen(i)
    \/ \E i \in Writers : WriterWrite(i)
    \/ LoaderExists
    \/ LoaderRead

SpecCache == InitCache /\ [][NextCache]_vars

(***************************************************************************)
(* Properties of the rendered output                                       *)
(***************************************************************************)
\* the elements of the output that carry the anchor as their id
AttachedTo(anchor) == {i \in 1..Len(rs.html_out) : rs.html_out[i].id = Some(anchor)}

\* the name events that have set the anchor
NamedBy(anchor) == {i \in 1..Len(rs.names_seen) : rs.names_seen[i] = anchor}

\* C6: the anchor of a #+NAME directive is the id of at most one rendered
\* element: the output never holds more elements with an anchor as id than
\* name events have set that anchor.
C6_AnchorUsedOnce ==
    rs.pc # "idle" =>
        \A i \in 1..Len(rs.names_seen) :
            Cardinality(AttachedTo(rs.names_seen[i])) <= Cardinality(NamedBy(rs.names_seen[i]))

(***************************************************************************)
(* Properties of the capture modes                                         *)
(***************************************************************************)
\* a step of the main loop: one more line has been read and rendered
LineStep == rs.pc = "loop" /\ rs'.pc = "loop" /\ nlines' = nlines + 1

\* the line of the step is the end marker the parser has matched with the
\* begin marker that set inside_pre
ClosesCapture ==
    /\ MatchedEndEmitted(events')
    /\ Len(state'.block_stack) = rs.pre_depth - 1

\* C13: once inside_pre is set for a verbatim or src block, only the end
\* marker that matches the begin marker that set it ends the capture; no
\* orphan or mismatched end, and no end of a marker pair inside the block,
\* does.
C13_CaptureEndsAtMatchingEnd ==
    [][(LineStep /\ rs.inside_pre /\ ~rs'.inside_pre) => ClosesCapture]_vars

\* C14: every line read between the begin marker of a verbatim or src block
\* and its matching end marker is appended to pre_lines and to nothing else,
\* and the matching end marker puts out the pre element with all these lines
\* in the order read.
C14_CapturedLinesKept ==
    [][(LineStep /\ rs.inside_pre)
         => IF ClosesCapture
            THEN /\ rs'.html_out # <<>>
                 /\ rs'.html_out[Len(rs'.html_out)].el = "pre"
                 /\ rs'.html_out[Len(rs'.html_out)].body.lines = rs.pre_lines
            ELSE /\ rs'.inside_pre
                 /\ rs'.pre_lines = Append(rs.pre_lines, line')
                 /\ rs'.html_out = rs.html_out]_vars

\* the capture modes that are collecting lines
ActiveCaptures ==
    (IF rs.inside_pre THEN {"pre"} ELSE {})
        \cup (IF rs.inside_verse THEN {"verse"} ELSE {})
        \cup (IF rs.table_collecting THEN {"table"} ELSE {})
        \cup (IF rs.noexport_active THEN {"noexport"} ELSE {})
        \cup (IF rs.results_mode = "collecting" THEN {"results"} ELSE {})

\* C15: in every reachable state of the renderer at most one of inside_pre,
\* inside_verse, table_collecting, noexport_active and
\* results_mode = "collecting" holds.
C15_OneCaptureMode == rs.pc # "idle" => Cardinality(ActiveCaptures) <= 1

\* the number of containers left open by the elements of out, from depth
\* containers open before them; -1 when a closing tag has no container to close
RECURSIVE ContainerDepth(_, _)
ContainerDepth(out, depth) ==
    IF out = <<>> THEN depth
    ELSE IF Head(out).el = "div" THEN ContainerDepth(Tail(out), depth + 1)
    ELSE IF Head(out).el = "/div"
    THEN (IF depth = 0 THEN -1 ELSE ContainerDepth(Tail(out), depth - 1))
    ELSE ContainerDepth(Tail(out), depth)

\* the output holds container tags only: the markers read so far were those of
\* container blocks (a verbatim or verse block that has ended puts out a pre
\* or verse element)
OnlyContainerTags == \A i \in 1..Len(rs.html_out) : rs.html_out[i].el \in {"div", "/div"}

\* C16: after a properly nested sequence of begin/end markers of non-verbatim
\* blocks, containers inside containers included, the output holds one
\* closing container tag for every opening one, each closing the container
\* opened last.
C16_ContainersBalanced ==
    (rs.pc # "idle" /\ wellnested /\ open = <<>> /\ OnlyContainerTags)
        => ContainerDepth(rs.html_out, 0) = 0

\* the line of the step is a heading that ends the noexport section: its
\* level is at most the level of the heading that started the section
EndsNoexport ==
    \E i \in 1..Len(events') :
        events'[i].type = "heading" /\ events'[i].level <= rs.noexport_level

\* C17: after a heading tagged noexport, every line up to the next heading of
\* the same or a lower level is appended to noexport_lines and puts nothing
\* into the output outside the hidden block.
C17_NoexportTakesEveryLine ==
    [][(LineStep /\ rs.noexport_active /\ ~EndsNoexport)
         => /\ rs'.noexport_active
            /\ rs'.noexport_lines = Append(rs.noexport_lines, line')
            /\ rs'.html_out = rs.html_out]_vars

\* C18: results_mode is "awaiting" for one line only: the line read after a
\* #+RESULTS line (unless it is a #+RESULTS line itself) takes results_mode to
\* "collecting" or to "none".
C18_AwaitingOneLine ==
    [][(LineStep /\ rs.results_mode = "awaiting" /\ ~StartsWith(LStrip(line'), S_RESULTS))
         => rs'.results_mode # "awaiting"]_vars

\* the line of the step is the end marker of the verse block
EndsVerse ==
    \E i \in 1..Len(events') :
        events'[i].type = "block_end" /\ events'[i].name = S_verse /\ ~Ignored(events'[i])

\* C19: every line read between the begin and the end marker of a verse block
\* becomes one line of verse_lines and puts out nothing outside the verse;
\* the end marker puts out the verse element with these lines, one per input
\* line and in the order read.
C19_VerseKeepsEveryLine ==
    [][(LineStep /\ rs.inside_verse)
         => IF EndsVerse
            THEN /\ rs'.html_out # <<>>
                 /\ rs'.html_out[Len(rs'.html_out)].el = "verse"
                 /\ rs'.html_out[Len(rs'.html_out)].body.lines = rs.verse_lines
            ELSE /\ rs'.inside_verse
                 /\ rs'.verse_lines = Append(rs.verse_lines, line')
                 /\ rs'.html_out = rs.html_out]_vars

HasMath(tokens) == \E i \in 1..Len(tokens) : tokens[i].type = "math_inline"

\* C20: the math of a paragraph line is rendered with the macro preamble as
\* it stood when the line was read: a paragraph put out by a step gets, for
\* every buffered line with math, the preamble of the time that line was
\* buffered, whatever #+LATEX definitions were read since.
C20_EarlierMathKeepsPreamble ==
    [][rs.pc = "loop"
         => \A k \in (Len(rs.html_out) + 1)..Len(rs'.html_out) :
                rs'.html_out[k].el = "p"
                    => \A i \in 1..Len(rs.paragraph_buffer) :
                           HasMath(rs.paragraph_buffer[i])
                               => rs'.html_out[k].body.macros = rs.buffered_macros[i]]_vars

(***************************************************************************)
(* Properties of the macro cache and the macro preamble                    *)
(***************************************************************************)
\* the elements whose markup is made with render_inline_tokens on document
\* text: paragraphs, list items, headings, table cells, verse lines, hidden
\* blocks
RendersInline(element) == element.el \in {"p", "li", "h", "table", "verse", "hidden"}

\* C21: once a #+LATEX definition has been cached, every element the renderer
\* puts out is rendered with the current preamble, the cached lines joined by
\* newlines.
C21_MathGetsCurrentPreamble ==
    [][(rs.pc = "loop" /\ state'.latex_macro_lines # <<>>)
         => \A k \in (Len(rs.html_out) + 1)..Len(rs'.html_out) :
                RendersInline(rs'.html_out[k])
                    => rs'.html_out[k].body.macros
                           = JoinSep(state'.latex_macro_lines, <<"\n">>)]_vars

\* the latex_macro events of a line
MacroEvents(evs) == {i \in 1..Len(evs) : evs[i].type = "latex_macro"}

\* C22: latex_macro_lines never holds a string twice and holds exactly the
\* elements of latex_macro_set; a line changes it only by appending a string
\* it did not hold, so it is in first-seen order; and a latex_macro event has
\* added = TRUE exactly when its line was appended.
C22_MacroCacheIsOrderedSet ==
    /\ [](/\ Range(state.latex_macro_lines) = state.latex_macro_set
          /\ \A i, j \in 1..Len(state.latex_macro_lines) :
                 state.latex_macro_lines[i] = state.latex_macro_lines[j] => i = j)
    /\ [][/\ \/ state'.latex_macro_lines = state.latex_macro_lines
             \/ \E v \in state'.latex_macro_set \ state.latex_macro_set :
                    state'.latex_macro_lines = Append(state.latex_macro_lines, v)
          /\ nlines' = nlines + 1
               => \A i \in MacroEvents(events') :
                      events'[i].added
                          <=> /\ state'.latex_macro_lines
                                   = Append(state.latex_macro_lines, events'[i].raw)
                              /\ events'[i].raw \notin state.latex_macro_set]_vars

\* two definitions are cached in the order read, and the line just read was
\* the first of them again: its event has added = FALSE and is not ignored
C22_Witness ==
    /\ Len(state.latex_macro_lines) = 2
    /\ \E i \in MacroEvents(events) :
           /\ ~events[i].added
           /\ ~events[i].ignored
           /\ events[i].raw = state.latex_macro_lines[1]

(***************************************************************************)
(* Properties of the classification of one line                            *)
(***************************************************************************)
\* one more line has been parsed
LineParsed == nlines' = nlines + 1

\* C23: while is_in_preamble holds, a blank line gives an empty event list
\* and leaves the state as it was.
C23_PreambleAbsorbsBlank ==
    [][(LineParsed /\ state.is_in_preamble /\ Strip(line') = <<>>)
         => /\ events' = <<>>
            /\ state' = state]_vars

\* C24: while is_in_preamble holds, a #+KEY: value line gives the two events
\* preamble_kv and line_tokens, in this order, stores the value under the
\* lowercased key and changes nothing else of the state: pending_anchor,
\* pending_caption_tokens, pending_html_attr and the macro cache stay as they
\* were, whatever the key.
C24_PreambleDirectiveOnlyStored ==
    [][(LineParsed /\ state.is_in_preamble /\ header_kv_re(line') # None)
         => /\ Len(events') = 2
            /\ events'[1].type = "preamble_kv"
            /\ events'[2].type = "line_tokens"
            /\ events'[1].key = LowerStr(Strip(header_kv_re(line')[1].g1))
            /\ events'[1].value = DirectiveValue(line')
            /\ \E i \in 1..Len(state'.preamble) :
                   state'.preamble[i] = [k |-> events'[1].key, v |-> events'[1].value]
            /\ \A f \in DOMAIN state \ {"preamble"} : state'[f] = state[f]]_vars

\* a #+NAME line has just been read in the preamble, after another line
C24_Witness ==
    /\ state.is_in_preamble
    /\ nlines > 1
    /\ line = L_name
    /\ Len(events) = 2
    /\ events[1].type = "preamble_kv"
    /\ events[1].key = S_name
    /\ state.pending_anchor = None

\* the line_tokens events of an event list
TokenEvents(evs) == {i \in 1..Len(evs) : evs[i].type = "line_tokens"}

\* the line just read is a table line
IsTableLine == StartsWith(LStrip(line), <<"|">>)

\* the line just read is a comment line: it starts with # but not with #+
IsCommentLine ==
    StartsWith(LStrip(line), <<"#">>) /\ ~StartsWith(LStrip(line), S_hashplus)

\* the line just read was taken by a drawer or a comment block: it opened
\* one, was collected by one or closed one
TakenByCapture ==
    \/ state.is_inside_drawer
    \/ state.is_inside_comment
    \/ HasEvent(events, {"drawer", "comment_block"})

\* C25: the event list parse_org_line returns holds at most one line_tokens
\* event and, when it holds one, it is the last event; a table line, a
\* comment line and a line taken by a drawer or a comment block give no
\* line_tokens event.
C25_LineTokensLastAndOnce ==
    /\ Cardinality(TokenEvents(events)) <= 1
    /\ \A i \in TokenEvents(events) : i = Len(events)
    /\ (IsTableLine \/ IsCommentLine \/ TakenByCapture) => TokenEvents(events) = {}

\* a line after the first has given three events or more, the last of them
\* the only line_tokens event
C25_Witness ==
    /\ Len(events) >= 3
    /\ TokenEvents(events) = {Len(events)}
    /\ nlines >= 2

\* the table events of an event list
TableEvents(evs) ==
    {i \in 1..Len(evs) : evs[i].type \in {"table_row", "table_hline"}}

\* the text of a table line between its outer bars, every outer bar removed
OuterStripped(text) == StripCh(Strip(text), "|")

\* the text of a table line without its first and its last bar
BetweenBars(text) ==
    LET core == Strip(text)
        rest == IF StartsWith(core, <<"|">>) THEN Tail(core) ELSE core
    IN  IF EndsWith(rest, <<"|">>) THEN Take(rest, Len(rest) - 1) ELSE rest

RuleOnly(text) == \A i \in 1..Len(text) : text[i] \in {"-", "+", " "}

RECURSIVE CountCh(_, _)
CountCh(s, c) ==
    IF s = <<>> THEN 0 ELSE (IF Head(s) = c THEN 1 ELSE 0) + CountCh(Tail(s), c)

RECURSIVE WithoutSpaces(_)
WithoutSpaces(s) ==
    IF s = <<>> THEN <<>>
    ELSE (IF Head(s) \in SpaceCh THEN <<>> ELSE <<Head(s)>>) \o WithoutSpaces(Tail(s))

RECURSIVE JoinBars(_)
JoinBars(cells) ==
    IF cells = <<>> THEN <<>>
    ELSE IF Len(cells) = 1 THEN cells[1]
    ELSE cells[1] \o <<"|">> \o JoinBars(Tail(cells))

\* cells are the pieces of text between its bars, each trimmed
CellsSplitAndTrimmed(cells, text) ==
    /\ Len(cells) = CountCh(text, "|") + 1
    /\ \A i \in 1..Len(cells) : cells[i] = Strip(cells[i]) /\ ~Contains(cells[i], "|")
    /\ WithoutSpaces(JoinBars(cells)) = WithoutSpaces(text)

\* the line just read gave exactly one table event: a table_hline when rule
\* holds, a table_row with its cells split and trimmed otherwise
ClassifiedBy(rule) ==
    /\ Cardinality(TableEvents(events)) = 1
    /\ \A i \in TableEvents(events) :
          IF rule THEN events[i].type = "table_hline"
          ELSE /\ events[i].type = "table_row"
               /\ CellsSplitAndTrimmed(events[i].cells, BetweenBars(line))

\* C26 as stated: a line whose stripped form starts with | is a table_hline
\* exactly when the text between its outer bars consists only of '-', '+'
\* and spaces, and a table_row with split and trimmed cells otherwise.
C26_RuleCharsOnlyIsHline ==
    (nlines = 1 /\ IsTableLine) => ClassifiedBy(RuleOnly(OuterStripped(line)))

\* C26 (amended): a line whose stripped form starts with | is a table_hline
\* exactly when the text between its outer bars, trimmed, is not empty and
\* consists only of '-', '+' and spaces, and a table_row with split and
\* trimmed cells otherwise.
C26_NonEmptyRuleIsHline ==
    (nlines = 1 /\ IsTableLine) =>
        ClassifiedBy(Strip(OuterStripped(line)) # <<>> /\ RuleOnly(OuterStripped(line)))

\* a table line with only blanks between its outer bars has given a row
C26_Witness ==
    /\ nlines = 1
    /\ IsTableLine
    /\ Len(line) >= 3
    /\ Strip(OuterStripped(line)) = <<>>
    /\ HasEvent(events, {"table_row"})

(***************************************************************************)
(* Properties of drawers                                                   *)
(***************************************************************************)
\* the drawer fields of a parser state
DrawerFields(st) ==
    <<st.is_inside_drawer, st.current_drawer_name, st.current_drawer_lines>>

\* the line being read is a drawer closer met while nothing is being
\* collected
OrphanEnd ==
    /\ LineParsed
    /\ drawer_end_re(line')
    /\ ~state.is_inside_drawer
    /\ ~state.is_inside_comment

\* C27: a drawer closer read while no drawer is open is a no-op: it opens no
\* drawer and leaves the drawer fields of the state as they were, so that
\* the lines after it are classified as usual.
C27_OrphanEndIsNoOp ==
    [][OrphanEnd =>
          /\ ~state'.is_inside_drawer
          /\ DrawerFields(state') = DrawerFields(state)]_vars

\* the line being read is a line of an open drawer other than its closer
DrawerContentLine ==
    /\ LineParsed
    /\ state.is_inside_drawer
    /\ ~drawer_end_re(line')

\* C28: while a drawer is open, a line other than the closer is only
\* appended to the drawer's lines: no event is returned and no other field
\* of the state changes.
C28_DrawerLineOnlyBuffered ==
    [][DrawerContentLine =>
          /\ events' = <<>>
          /\ state' = [state EXCEPT !.current_drawer_lines =
                                        Some(Append(IF @ = None THEN <<>> ELSE @[1], line'))]]_vars

\* what the renderer has written and what it holds to write later
OutputFields(r) ==
    <<r.html_out, r.paragraph_buffer, r.pre_lines, r.verse_lines, r.table_buffer,
      r.results_lines, r.noexport_lines>>

\* the line being read belongs to a drawer: it opens one, is collected by
\* one or closes one
DrawerLineStep ==
    /\ LineStep
    /\ state'.is_inside_drawer \/ HasEvent(events', {"drawer"})

\* C30: a line of a drawer, be it the opener, a content line or the closer,
\* adds nothing to the HTML output nor to anything the renderer holds for
\* the output.
C30_DrawerLinesNotRendered ==
    [][DrawerLineStep => OutputFields(rs') = OutputFields(rs)]_vars

\* a drawer with content has been closed while a paragraph was buffered
C30_Witness ==
    /\ \E i \in 1..Len(events) : events[i].type = "drawer" /\ events[i].lines # <<>>
    /\ rs.paragraph_buffer # <<>>
    /\ rs.pc = "loop"

(***************************************************************************)
(* Properties of image lines                                               *)
(***************************************************************************)
\* the events hold the tokens of a line that is one link to an image
ImageLineEvents(evs) ==
    \E i \in TokenEvents(evs) : is_single_image_line(evs[i].tokens)

\* C29: a line whose tokens are exactly one link to an image is rendered as
\* a figure element, whether or not an anchor, a caption or ATTR_HTML
\* attributes are pending.
C29_ImageLineIsFigure ==
    [][(LineStep /\ ImageLineEvents(events') /\ ~rs.inside_pre) =>
          /\ Len(rs'.html_out) = Len(rs.html_out) + 1
          /\ rs'.html_out[Len(rs'.html_out)].el = "figure"]_vars

(***************************************************************************)
(* Properties of the preamble over one pass                                *)
(***************************************************************************)
PreambleEnds(evs) == {i \in 1..Len(evs) : evs[i].type = "preamble_end"}

\* C39: is_in_preamble never goes from false back to true; a preamble_end
\* event is returned once at most, by the first line that is neither blank
\* nor a #+KEY: directive, and the preamble headers stay as they are from
\* that line on.
C39_PreambleEndsOnce ==
    [][LineParsed =>
          /\ ~state.is_in_preamble => ~state'.is_in_preamble
          /\ Cardinality(PreambleEnds(events')) <= 1
          /\ PreambleEnds(events') # {} <=>
                 /\ state.is_in_preamble
                 /\ Strip(line') # <<>>
                 /\ header_kv_re(line') = None
          /\ PreambleEnds(events') # {} => ~state'.is_in_preamble
          /\ ~state.is_in_preamble => state'.preamble = state.preamble]_vars

\* a directive line was read after the preamble with a header had ended
C39_Witness ==
    /\ ~state.is_in_preamble
    /\ state.preamble # <<>>
    /\ header_kv_re(line) # None
    /\ PreambleEnds(events) = {}

(***************************************************************************)
(* Properties of lists in the output                                       *)
(***************************************************************************)
\* the list tags among the first n elements of the output that open, or that
\* close, a list
ListTags(out, n, tags) == {i \in 1..n : out[i].el \in tags}

\* a list is open where the element i of the output stands
ListOpenAt(out, i) ==
    Cardinality(ListTags(out, i - 1, {"ul", "ol"}))
        > Cardinality(ListTags(out, i - 1, {"/ul", "/ol"}))

\* C40: a paragraph element is appended to the output only while no list is
\* open: inside_ul and inside_ol are both false, the list having been closed
\* before the content that follows it.
C40_ParagraphOutsideLists ==
    \A i \in 1..Len(rs.html_out) :
        rs.html_out[i].el = "p" => ~ListOpenAt(rs.html_out, i)

(***************************************************************************)
(* Properties of the inline tokenizer                                      *)
(***************************************************************************)
\* no link, emphasis or math of the text has its closing delimiter
Unterminated(text) ==
    /\ CountCh(text, "$") <= 1
    /\ CountCh(text, "*") <= 1
    /\ Find(text, <<"]", "]">>) = 0
    /\ Find(text, <<"\\", ")">>) = 0

\* the tokens are the text as plaintext
AllPlaintext(tokens, text) ==
    tokens = IF text = <<>> THEN <<>> ELSE <<[type |-> "plaintext", text |-> text]>>

\* C33: tokenize_inline_org_markup returns on every text: each iteration of
\* the scan loop moves the scan position forward by one character at least
\* and never beyond the end of the text, and a text whose links, emphasis
\* and math are not closed is returned as plaintext.
C33_TokenizerTerminates ==
    /\ [][(tk.pc = "scan" /\ tk'.pc = "scan") =>
             /\ tk'.i >= tk.i + 1
             /\ tk'.i <= Len(tk.text) + 1]_vars
    /\ <>(tk.pc = "done")
    /\ []((tk.pc = "done" /\ Unterminated(tk.text)) => AllPlaintext(tk.tokens, tk.text))

\* a call has returned a text with an unclosed link and an unclosed '$' as
\* one plaintext token
C33_Witness ==
    /\ tk.pc = "done"
    /\ Len(tk.text) = MaxTokenLen
    /\ StartsWith(tk.text, <<"[", "[">>)
    /\ Contains(tk.text, "$")
    /\ Unterminated(tk.text)
    /\ Len(tk.tokens) = 1

\* length of the run of stars a heading line starts with, 0 when the text is
\* not a heading line
HeadingStars(text) ==
    LET n == SpanLen(text, {"*"})
    IN  IF n >= 1 /\ n + 1 < Len(text) /\ text[n + 1] = " " THEN n ELSE 0

\* C38: for a heading line of any level the tokenizer gives no emphasis
\* token for the run of stars: the tokens start with plaintext that holds the
\* stars and the space after them.
C38_HeadingStarsNotBold ==
    (tk.pc = "done" /\ HeadingStars(tk.text) > 0) =>
        /\ tk.tokens # <<>>
        /\ tk.tokens[1].type = "plaintext"
        /\ StartsWith(tk.tokens[1].text, Take(tk.text, HeadingStars(tk.text) + 1))

(***************************************************************************)
(* Properties of the flush operations                                      *)
(***************************************************************************)
\* the renderer is between two lines of the main loop
BetweenLines == rs.pc = "loop"

\* each flush leaves the locals it gives as they are when applied again
FlushesIdempotent(r) ==
    /\ flush_paragraph_here(flush_paragraph_here(r)) = flush_paragraph_here(r)
    /\ flush_pre_if_needed(flush_pre_if_needed(r)) = flush_pre_if_needed(r)
    /\ flush_verse_if_needed(flush_verse_if_needed(r)) = flush_verse_if_needed(r)
    /\ flush_table_if_needed(flush_table_if_needed(r)) = flush_table_if_needed(r)
    /\ flush_results_block(flush_results_block(r)) = flush_results_block(r)
    /\ flush_noexport_block(flush_noexport_block(r)) = flush_noexport_block(r)

\* a flush of a context that is empty already, nothing collected and its
\* mode off, leaves every local as it is
EmptyFlushesChangeNothing(r) ==
    /\ r.paragraph_buffer = <<>> => flush_paragraph_here(r) = r
    /\ ~r.inside_pre => flush_pre_if_needed(r) = r
    /\ ~r.inside_verse => flush_verse_if_needed(r) = r
    /\ (~r.table_collecting /\ r.table_buffer = <<>>) => flush_table_if_needed(r) = r
    /\ (r.results_mode = "none" /\ r.results_lines = <<>>) => flush_results_block(r) = r
    /\ ~r.noexport_active => flush_noexport_block(r) = r

\* C34: each flush of the renderer (paragraph, pre, verse, table, results,
\* noexport) is idempotent and, applied to a context that holds nothing,
\* appends nothing to the output and changes no local of the renderer.
C34_FlushesIdempotent ==
    BetweenLines => FlushesIdempotent(rs) /\ EmptyFlushesChangeNothing(rs)

\* a result has been collected below output already written
C34_Witness ==
    /\ BetweenLines
    /\ rs.results_lines # <<>>
    /\ rs.html_out # <<>>

(***************************************************************************)
(* Properties of the include resolver                                      *)
(***************************************************************************)
\* the resolver reads one more line of the file of its innermost call
ReadsLine ==
    /\ rd.pc = "reading"
    /\ TopFrame(rd).pos < Len(rd.files[TopFrame(rd).path])
    /\ rd' # rd

\* the first n lines of the file are blank lines and header lines with a
\* key of the skip set
LeadingPreamble(file, n) ==
    \A i \in 1..n : Strip(file[i]) = <<>> \/ should_skip_header_line(file[i])

\* C32: in an included file the resolver drops the blank lines and the
\* skip-key header lines that come before the first other line, and nothing
\* else: that line and every later line is yielded (an include directive
\* expanded), blank and skip-key lines too.  In the root file no line is
\* dropped.
C32_IncludedPreambleFiltered ==
    [][ReadsLine =>
          /\ rd'.dropped # rd.dropped <=>
                 /\ Len(rd.stack) > 1
                 /\ LeadingPreamble(rd.files[TopFrame(rd).path], TopFrame(rd).pos + 1)
          /\ (rd'.dropped = rd.dropped /\ ~is_include(NextLineOf(rd))) =>
                 rd'.out = Append(rd.out, NextLineOf(rd))]_vars

\* the file b has lost its preamble and given its later skip-key line
C32_Witness ==
    /\ rd.pc = "done"
    /\ \E d \in 1..Len(rd.dropped) : rd.dropped[d][2] = P_b /\ rd.dropped[d][3] = 2
    /\ \E i \in 1..Len(rd.out) : rd.origin[i][1] = P_b /\ should_skip_header_line(rd.out[i])
    /\ \E i \in 1..Len(rd.out) : rd.origin[i][1] = P_a /\ header_kv_re(rd.out[i]) # None

\* the depth-first expansion of a file from its line pos + 1 on: the lines of
\* the file in their order, the preamble of an included file left out, each
\* include directive outside a block, a drawer and a comment replaced by the
\* expansion of the file it names
RECURSIVE ExpandFile(_, _, _, _, _)
ExpandParsed(files, path, pos, st, l) ==
    IF is_include(l) /\ ~InsideContainer(st)
    THEN ExpandFile(files, resolve_include(l)[1], 0, TRUE, OrgState)
             \o ExpandFile(files, path, pos + 1, FALSE, st)
    ELSE <<l>> \o ExpandFile(files, path, pos + 1, FALSE, st)

ExpandLine(files, path, pos, in_preamble, st, l) ==
    IF in_preamble /\ (Strip(l) = <<>> \/ should_skip_header_line(l))
    THEN ExpandFile(files, path, pos + 1, TRUE, st)
    ELSE ExpandParsed(files, path, pos, parse_org_line(l, st).state, l)

ExpandFile(files, path, pos, in_preamble, st) ==
    IF pos >= Len(files[path]) THEN <<>>
    ELSE ExpandLine(files, path, pos, in_preamble, st, files[path][pos + 1])

\* C35: read_with_includes yields the depth-first expansion of the root
\* file: an expanded include directive is replaced where it stands by the
\* lines of the included file, filtered and expanded in their turn, the
\* directive itself is not yielded and the other lines keep their order.
C35_DepthFirstExpansion ==
    rd.pc = "done" => rd.out = ExpandFile(rd.files, P_main, 0, FALSE, OrgState)

\* a line of b stands between a line of the root file and a line of a
C35_Witness ==
    /\ rd.pc = "done"
    /\ \E i, j, k \in 1..Len(rd.out) :
          /\ i < j /\ j < k
          /\ rd.origin[i][1] = P_main
          /\ rd.origin[j][1] = P_b
          /\ rd.origin[k][1] = P_a

\* C36: a path that is being expanded already is not expanded again inside
\* its own expansion: the calls of one inclusion chain read different files.
C36_RepeatedPathIsError ==
    \A i, j \in 1..Len(rd.stack) : i < j => rd.stack[i].path # rd.stack[j].path

\* C31: an include directive read while the state of the including file is
\* inside a verbatim block, a drawer or a comment block is yielded as it is
\* and not expanded, and the directive yielded from a verbatim block stands
\* in a preformatted element of the final HTML.
C31_IncludeInsideVerbatimLiteral ==
    /\ [][(ReadsLine /\ is_include(NextLineOf(rd)) /\ rd'.dropped = rd.dropped
             /\ (\/ TopFrame(rd).state.is_inside_verbatim_block
                 \/ TopFrame(rd).state.is_inside_drawer
                 \/ TopFrame(rd).state.is_inside_comment)) =>
             /\ rd'.out = Append(rd.out, NextLineOf(rd))
             /\ Len(rd'.stack) = Len(rd.stack)]_vars
    /\ [](rs.pc = "done" =>
             \A i \in rd.literal :
                 \E k \in 1..Len(rs.html_out) :
                     /\ rs.html_out[k].el = "pre"
                     /\ \E n \in 1..Len(rs.html_out[k].body.lines) :
                            rs.html_out[k].body.lines[n] = rd.out[i])

(***************************************************************************)
(* Properties of the math-image cache                                      *)
(***************************************************************************)
AllWritersDone == \A i \in Writers : mc.w[i].pc = "done"

\* C37: races on one key of the math cache are benign: in every
\* interleaving of the calls of math_image_url for one macro preamble and
\* one math source with a load of that key, the file holds, once the
\* writers have returned, the content one writer gives it, and a load that
\* finds the file returns the (macros, math) pair it returns after one
\* writer has written the file.
C37_CacheRacesBenign ==
    /\ mc.pc = "run" /\ AllWritersDone => mc.file = Some(Content(mc))
    /\ mc.pc = "run" /\ mc.ld = "loaded" =>
           mc.loaded = Some(load_math_cache_payload(Content(mc)))

====
